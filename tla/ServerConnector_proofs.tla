------------------------ MODULE ServerConnector_proofs ------------------------
(***************************************************************************)
(* Theorems about ServerConnector, for any number of calls: which object   *)
(* each field names, that no failure turns into a success, and that a call *)
(* that ran alone returns the reply to its own request or a timeout.       *)
(***************************************************************************)
EXTENDS ServerConnector, SequenceTheorems, TLAPS

--------------------------------------------------------------------------------
(* The inductive invariant *)

(* The lines of sendMessage at which a field has been assigned by the call *)
(* itself.                                                                 *)
WithReader == {"print", "flush", "read", "reading", "closeIn", "closeOut", "closeSocket"}
WithWriter == WithReader \cup {"reader"}
WithSocket == WithWriter \cup {"timeout", "writer"}
WithReply == {"closeIn", "closeOut", "closeSocket", "parse"}

(* Calls that run at the same time have overlapped.                        *)
Together == \A c, d \in Calls : Running(c) /\ Running(d) /\ c # d => c \in overlapped

(* An object x that call c uses is its own, or both belong to calls that   *)
(* overlapped.                                                             *)
Own(x, c) == IF c \in overlapped THEN x \in overlapped ELSE x = c

Fields ==
    \A c \in Calls :
        /\ pc[c] \in WithSocket => Own(socket, c)
        /\ pc[c] \in WithWriter => Own(outputBuffer, c)
        /\ pc[c] \in WithReader => Own(inputBuffer, c)
        /\ pc[c] = "reading" => Own(reading[c], c) /\ rsock[reading[c]] # None

(* Writers and readers belong to sockets.                                  *)
Streams ==
    /\ \A w \in Calls : wsock[w] # None => Own(wsock[w], w)
    /\ \A r \in Calls : rsock[r] # None => Own(rsock[r], r)
    /\ outputBuffer # None => wsock[outputBuffer] # None
    /\ inputBuffer # None => rsock[inputBuffer] # None

(* A reply, wherever it has got to, is of a request that was handled.      *)
RepliesBacked ==
    /\ \A k \in Calls : line[k] \in Calls => line[k] \in handled
    /\ reply \in Calls => reply \in handled
    /\ response \in Calls => response \in handled

(* The objects of a call that runs alone have carried only its request and *)
(* only the reply to it.                                                   *)
OwnLine(c) ==
    /\ sent[c] \in Seq({c}) /\ wbuf[c] \in Seq({c})
    /\ line[c] \in {c, BareOK, None}

OwnReply(c) ==
    /\ pc[c] \in WithReply => reply \in {c, BareOK}
    /\ pc[c] = "return" => response \in {c, Timeout}

Alone == \A c \in Calls \ overlapped : OwnLine(c) /\ OwnReply(c)

IInv ==
    /\ TypeOK /\ Together /\ Fields /\ Streams
    /\ RepliesBacked /\ RepliesWereHandled
    /\ Alone /\ OwnReplyUnlessOverlapped

--------------------------------------------------------------------------------
(* Steps of a call leave the others where they are.                        *)
LEMMA CallGoesOn ==
    ASSUME TypeOK, NEW c \in Calls, CallStep(c)
    PROVE  /\ Running(c) /\ overlapped' = overlapped
           /\ \E step \in Steps : pc' = [pc EXCEPT ![c] = step]
<1>1. overlapped' = overlapped
  BY DEF CallStep, CreateSocket, SetTimeout, MakeWriter, MakeReader, PrintRequest, FlushRequest,
         BeginRead, ReadLine, ReadFails, CloseReader, CloseWriter, CloseSocket, ParseReply, Catch,
         Return, ghosts
<1>2. Running(c)
  BY DEF CallStep, CreateSocket, SetTimeout, MakeWriter, MakeReader, PrintRequest, FlushRequest,
         BeginRead, ReadLine, ReadFails, CloseReader, CloseWriter, CloseSocket, ParseReply, Catch,
         Return, From, Running
<1>3. \E step \in Steps : pc' = [pc EXCEPT ![c] = step]
  BY DEF CallStep, CreateSocket, SetTimeout, MakeWriter, MakeReader, PrintRequest, FlushRequest,
         BeginRead, ReadLine, ReadFails, CloseReader, CloseWriter, CloseSocket, ParseReply, Catch,
         Return, Goto, Steps
<1> QED
  BY <1>1, <1>2, <1>3

LEMMA TogetherNext ==
    ASSUME TypeOK, Together, [Next]_vars
    PROVE  Together' /\ overlapped \subseteq overlapped' /\ overlapped' \subseteq Calls
<1>1. CASE UNCHANGED vars
  BY <1>1 DEF vars, ghosts, Together, Running, TypeOK
<1>2. ASSUME NEW c \in Calls, Call(c)
      PROVE  Together' /\ overlapped \subseteq overlapped' /\ overlapped' \subseteq Calls
  <2> DEFINE others == {d \in Calls : Running(d)}
  <2>1. overlapped' = IF others = {} THEN overlapped ELSE overlapped \cup others \cup {c}
    BY <1>2 DEF Call
  <2>2. pc' = [pc EXCEPT ![c] = "create"]
    BY <1>2 DEF Call, Goto
  <2>3. ASSUME NEW a \in Calls, NEW b \in Calls, Running(a)', Running(b)', a # b
        PROVE  a \in overlapped'
    <3>1. Running(a) \/ Running(b)
      BY <2>2, <2>3 DEF Running, TypeOK
    <3>2. a = c \/ Running(a)
      BY <2>2, <2>3 DEF Running, TypeOK
    <3> QED
      BY <2>1, <3>1, <3>2
  <2> QED
    BY <2>1, <2>3 DEF Together, TypeOK
<1>3. ASSUME NEW c \in Calls, CallStep(c)
      PROVE  Together' /\ overlapped \subseteq overlapped' /\ overlapped' \subseteq Calls
  <2>1. overlapped' = overlapped /\ \A d \in Calls : Running(d)' => Running(d)
    BY <1>3, CallGoesOn DEF Running, TypeOK
  <2> QED
    BY <2>1 DEF Together, TypeOK
<1>4. ASSUME NEW k \in Calls, Serve(k)
      PROVE  Together' /\ overlapped \subseteq overlapped' /\ overlapped' \subseteq Calls
  BY <1>4 DEF Serve, ghosts, Together, Running, TypeOK
<1> QED
  BY <1>1, <1>2, <1>3, <1>4 DEF Next

(* A step of c, or of the server, keeps the objects of the calls it does   *)
(* not move; one that moves c says what c has now.                         *)
LEMMA FieldsFrame ==
    ASSUME TypeOK, Together, Fields, Streams, NEW c \in Calls, NEW step \in Steps,
           Running(c), overlapped' = overlapped, pc' = [pc EXCEPT ![c] = step],
           socket' \in {socket, c}, outputBuffer' \in {outputBuffer, c},
           inputBuffer' \in {inputBuffer, c},
           \A d \in Calls \ {c} : reading'[d] = reading[d],
           \A d \in Calls : rsock[d] # None => rsock'[d] # None,
           step \in WithSocket => Own(socket, c)',
           step \in WithWriter => Own(outputBuffer, c)',
           step \in WithReader => Own(inputBuffer, c)',
           step = "reading" => Own(reading[c], c)' /\ (rsock[reading[c]] # None)'
    PROVE  Fields'
<1>1. \A d \in Calls \ {c} : Running(d) => d \in overlapped /\ c \in overlapped
  BY DEF Together
<1>2. SUFFICES ASSUME NEW d \in Calls
               PROVE  /\ pc'[d] \in WithSocket => Own(socket, d)'
                      /\ pc'[d] \in WithWriter => Own(outputBuffer, d)'
                      /\ pc'[d] \in WithReader => Own(inputBuffer, d)'
                      /\ pc'[d] = "reading" => Own(reading[d], d)' /\ rsock'[reading'[d]] # None
  BY DEF Fields
<1>3. CASE d = c
  BY <1>3 DEF TypeOK
<1>4. CASE d # c
  <2>1. pc'[d] = pc[d]
    BY <1>4 DEF TypeOK
  <2>2. pc[d] \in WithSocket \cup {"reading"} => Running(d)
    BY DEF WithSocket, WithWriter, WithReader, Running
  <2>3. /\ pc[d] \in WithSocket => Own(socket, d)
        /\ pc[d] \in WithWriter => Own(outputBuffer, d)
        /\ pc[d] \in WithReader => Own(inputBuffer, d)
        /\ pc[d] = "reading" => Own(reading[d], d) /\ rsock[reading[d]] # None
    BY DEF Fields
  <2>4. WithWriter \subseteq WithSocket /\ WithReader \subseteq WithSocket
    BY DEF WithSocket, WithWriter
  <2>5. reading'[d] = reading[d]
    BY <1>4
  <2>6. pc[d] = "reading" => reading[d] \in Calls
    BY <2>3 DEF Own, TypeOK
  <2> QED
    BY <1>1, <1>4, <2>1, <2>2, <2>3, <2>4, <2>5, <2>6 DEF Own
<1> QED
  BY <1>3, <1>4

LEMMA FieldsCallStep ==
    ASSUME TypeOK, Together, Fields, Streams, NEW c \in Calls, CallStep(c)
    PROVE  Fields'
<1> DEFINE Moves(step) ==
      /\ pc' = [pc EXCEPT ![c] = step]
      /\ socket' \in {socket, c} /\ outputBuffer' \in {outputBuffer, c}
      /\ inputBuffer' \in {inputBuffer, c}
      /\ \A d \in Calls \ {c} : reading'[d] = reading[d]
      /\ \A d \in Calls : rsock[d] # None => rsock'[d] # None
      /\ step \in WithSocket => Own(socket, c)'
      /\ step \in WithWriter => Own(outputBuffer, c)'
      /\ step \in WithReader => Own(inputBuffer, c)'
      /\ step = "reading" => Own(reading[c], c)' /\ (rsock[reading[c]] # None)'
<1>1. Running(c) /\ overlapped' = overlapped
  BY CallGoesOn
<1>2. /\ pc[c] \in WithSocket => Own(socket, c)
      /\ pc[c] \in WithWriter => Own(outputBuffer, c)
      /\ pc[c] \in WithReader => Own(inputBuffer, c)
  BY DEF Fields
<1>3. Own(c, c) /\ None \notin Calls
  BY SpecialValues DEF Own
<1>4. \E step \in Steps : Moves(step)
  <2>1. CASE CreateSocket(c)
    <3>1. Moves("timeout") \/ Moves("catch")
      BY <1>1, <1>3, <2>1
         DEF CreateSocket, Goto, Own, WithSocket, WithWriter, WithReader, streams, ghosts
    <3> QED
      BY <3>1 DEF Steps
  <2>2. CASE SetTimeout(c)
    <3>1. Moves("writer") \/ Moves("catch")
      BY <1>1, <1>2, <2>2
         DEF SetTimeout, From, Goto, Own, WithSocket, WithWriter, WithReader, streams, ghosts, fields
    <3> QED
      BY <3>1 DEF Steps
  <2>3. CASE MakeWriter(c)
    <3>1. Moves("reader") \/ Moves("catch")
      BY <1>1, <1>2, <1>3, <2>3
         DEF MakeWriter, From, Goto, Own, WithSocket, WithWriter, WithReader, ghosts
    <3> QED
      BY <3>1 DEF Steps
  <2>4. CASE MakeReader(c)
    <3>1. socket \in Calls
      BY <1>2, <2>4 DEF MakeReader, From, Own, TypeOK, WithSocket, WithWriter
    <3>2. Moves("print") \/ Moves("catch")
      BY <1>1, <1>2, <1>3, <2>4, <3>1
         DEF MakeReader, From, Goto, Own, WithSocket, WithWriter, WithReader, ghosts, TypeOK
    <3> QED
      BY <3>2 DEF Steps
  <2>5. CASE PrintRequest(c) \/ FlushRequest(c)
    <3>1. Moves("flush") \/ Moves("read")
      BY <1>1, <1>2, <2>5
         DEF PrintRequest, FlushRequest, From, Goto, Own, WithSocket, WithWriter, WithReader,
             ghosts, fields
    <3> QED
      BY <3>1 DEF Steps
  <2>6. CASE BeginRead(c)
    <3>1. inputBuffer # None /\ rsock[inputBuffer] # None
      BY <1>2, <1>3, <2>6 DEF BeginRead, From, Own, WithReader, Streams, TypeOK
    <3>2. Moves("reading")
      BY <1>1, <1>2, <2>6, <3>1
         DEF BeginRead, From, Goto, Own, WithSocket, WithWriter, WithReader, streams, fields, TypeOK
    <3> QED
      BY <3>2 DEF Steps
  <2>7. CASE ReadLine(c) \/ ReadFails(c)
    <3>1. Moves("closeIn") \/ Moves("catch")
      BY <1>1, <1>2, <2>7
         DEF ReadLine, ReadFails, From, Goto, Own, WithSocket, WithWriter, WithReader, streams,
             ghosts, fields
    <3> QED
      BY <3>1 DEF Steps
  <2>8. CASE CloseReader(c) \/ CloseWriter(c) \/ CloseSocket(c)
    <3>1. Moves("closeOut") \/ Moves("closeSocket") \/ Moves("parse")
      BY <1>1, <1>2, <2>8
         DEF CloseReader, CloseWriter, CloseSocket, From, Goto, Own, WithSocket, WithWriter,
             WithReader, streams, ghosts, fields
    <3> QED
      BY <3>1 DEF Steps
  <2>9. CASE ParseReply(c) \/ Catch(c) \/ Return(c)
    <3>1. Moves("catch") \/ Moves("return") \/ Moves("done")
      BY <1>1, <2>9
         DEF ParseReply, Catch, Return, From, Goto, WithSocket, WithWriter, WithReader, streams,
             ghosts, fields
    <3> QED
      BY <3>1 DEF Steps
  <2> QED
    BY <2>1, <2>2, <2>3, <2>4, <2>5, <2>6, <2>7, <2>8, <2>9 DEF CallStep
<1> QED
  BY <1>1, <1>4, FieldsFrame

LEMMA FieldsNext ==
    ASSUME TypeOK, Together, Fields, Streams, [Next]_vars
    PROVE  Fields'
<1>1. overlapped \subseteq overlapped'
  BY TogetherNext
<1>2. ASSUME UNCHANGED <<socket, outputBuffer, inputBuffer, rsock, reading>>,
             \A d \in Calls : pc'[d] = pc[d] \/ pc'[d] = "create"
      PROVE  Fields'
  <2>1. "create" \notin WithSocket \cup WithWriter \cup WithReader
    BY DEF WithSocket, WithWriter, WithReader
  <2>2. ASSUME NEW d \in Calls
        PROVE  /\ pc'[d] \in WithSocket => Own(socket, d)'
               /\ pc'[d] \in WithWriter => Own(outputBuffer, d)'
               /\ pc'[d] \in WithReader => Own(inputBuffer, d)'
               /\ pc'[d] = "reading" => Own(reading[d], d)' /\ rsock'[reading'[d]] # None
    BY <1>1, <1>2, <2>1 DEF Fields, Own
  <2> QED
    BY <2>2 DEF Fields
<1>3. CASE UNCHANGED vars
  BY <1>2, <1>3 DEF vars, fields, streams, ghosts
<1>4. ASSUME NEW c \in Calls, Call(c)
      PROVE  Fields'
  BY <1>2, <1>4 DEF Call, Goto, fields, streams, TypeOK
<1>5. ASSUME NEW k \in Calls, Serve(k)
      PROVE  Fields'
  BY <1>2, <1>5 DEF Serve, fields, streams, ghosts
<1> QED
  BY <1>3, <1>4, <1>5, FieldsCallStep DEF Next

(* Writers and readers are made of the call's own socket, or of that of a  *)
(* call it overlapped with.                                                *)
LEMMA StreamsNext ==
    ASSUME TypeOK, Together, Fields, Streams, [Next]_vars
    PROVE  Streams'
<1>1. overlapped \subseteq overlapped'
  BY TogetherNext
<1>2. ASSUME UNCHANGED <<outputBuffer, inputBuffer, wsock, rsock>>
      PROVE  Streams'
  BY <1>1, <1>2 DEF Streams, Own
<1>3. ASSUME NEW c \in Calls, MakeWriter(c) \/ MakeReader(c)
      PROVE  Streams'
  <2>1. Own(socket, c) /\ socket \in Calls /\ None \notin Calls /\ overlapped' = overlapped
    BY <1>3, SpecialValues
       DEF MakeWriter, MakeReader, From, Fields, Own, TypeOK, WithSocket, WithWriter, ghosts
  <2>2. wsock' \in {wsock, [wsock EXCEPT ![c] = socket]} /\ rsock' \in {rsock, [rsock EXCEPT ![c] = socket]}
    BY <1>3 DEF MakeWriter, MakeReader
  <2>3. /\ \A w \in Calls : wsock'[w] # None => Own(wsock[w], w)'
        /\ \A r \in Calls : rsock'[r] # None => Own(rsock[r], r)'
    <3>1. ASSUME NEW w \in Calls
          PROVE  /\ wsock'[w] = wsock[w] \/ (w = c /\ wsock'[w] = socket)
                 /\ rsock'[w] = rsock[w] \/ (w = c /\ rsock'[w] = socket)
      BY <2>2 DEF TypeOK
    <3> QED
      BY <2>1, <3>1 DEF Streams, Own
  <2>4. /\ outputBuffer' # None => wsock'[outputBuffer'] # None
        /\ inputBuffer' # None => rsock'[inputBuffer'] # None
    BY <1>3, <2>1, <2>2 DEF MakeWriter, MakeReader, Streams, TypeOK
  <2> QED
    BY <2>3, <2>4 DEF Streams
<1>4. ASSUME NEW c \in Calls, CallStep(c), ~MakeWriter(c), ~MakeReader(c)
      PROVE  Streams'
  BY <1>2, <1>4
     DEF CallStep, CreateSocket, SetTimeout, PrintRequest, FlushRequest, BeginRead, ReadLine,
         ReadFails, CloseReader, CloseWriter, CloseSocket, ParseReply, Catch, Return, fields, streams
<1>5. CASE \/ UNCHANGED vars
           \/ \E c \in Calls : Call(c) \/ Serve(c)
  BY <1>2, <1>5 DEF vars, Call, Serve, fields, streams
<1> QED
  BY <1>3, <1>4, <1>5 DEF Next

--------------------------------------------------------------------------------
(* Types and replies *)

(* The objects a step uses are there.                                      *)
LEMMA Objects ==
    ASSUME TypeOK, Fields, Streams, NEW c \in Calls
    PROVE  /\ pc[c] \in WithSocket => socket \in Calls
           /\ pc[c] \in WithWriter => outputBuffer \in Calls /\ wsock[outputBuffer] \in Calls
           /\ pc[c] \in WithReader => inputBuffer \in Calls /\ rsock[inputBuffer] \in Calls
           /\ pc[c] = "reading" => reading[c] \in Calls /\ rsock[reading[c]] \in Calls
<1>1. None \notin Calls /\ overlapped \subseteq Calls
  BY SpecialValues DEF TypeOK
<1>2. /\ pc[c] \in WithSocket => socket \in Calls
      /\ pc[c] \in WithWriter => outputBuffer \in Calls
      /\ pc[c] \in WithReader => inputBuffer \in Calls
      /\ pc[c] = "reading" => reading[c] \in Calls /\ rsock[reading[c]] # None
  BY <1>1 DEF Fields, Own
<1>3. \A x \in Calls : /\ wsock[x] # None => wsock[x] \in Calls
                       /\ rsock[x] # None => rsock[x] \in Calls
  BY DEF TypeOK
<1>4. /\ outputBuffer # None => wsock[outputBuffer] # None
      /\ inputBuffer # None => rsock[inputBuffer] # None
  BY DEF Streams
<1>5. /\ outputBuffer \in Calls => wsock[outputBuffer] \in Calls
      /\ inputBuffer \in Calls => rsock[inputBuffer] \in Calls
  BY <1>1, <1>3, <1>4
<1> QED
  BY <1>2, <1>3, <1>5

LEMMA Flushed ==
    ASSUME TypeOK, NEW w \in Calls, wsock[w] \in Calls, FlushWriter(w)
    PROVE  sent' \in [Calls -> Seq(Calls)] /\ wbuf' \in [Calls -> Seq(Calls)]
<1>1. sent[wsock[w]] \in Seq(Calls) /\ wbuf[w] \in Seq(Calls) /\ <<>> \in Seq(Calls)
  BY DEF TypeOK
<1>2. sent[wsock[w]] \o wbuf[w] \in Seq(Calls)
  BY <1>1, ConcatProperties
<1> QED
  BY <1>1, <1>2 DEF FlushWriter, TypeOK

LEMMA TypeCallStep ==
    ASSUME TypeOK, Fields, Streams, NEW c \in Calls, CallStep(c)
    PROVE  TypeOK'
<1>1. pc' \in [Calls -> Steps] /\ overlapped' \subseteq Calls
  BY CallGoesOn DEF TypeOK
<1> DEFINE MovesOn == pc' \in [Calls -> Steps] /\ overlapped' \subseteq Calls
<1>2. MovesOn
  BY <1>1
<1> HIDE DEF MovesOn
<1>3. CASE CreateSocket(c) \/ MakeWriter(c) \/ MakeReader(c)
  <2>1. MakeWriter(c) \/ MakeReader(c) => socket \in Calls
    BY Objects DEF MakeWriter, MakeReader, From, WithSocket, WithWriter
  <2> QED
    BY <1>2, <1>3, <2>1 DEF MovesOn, CreateSocket, MakeWriter, MakeReader, TypeOK, sockets, streams, ghosts
<1>4. CASE SetTimeout(c)
  <2>1. timed' = [timed EXCEPT ![socket] = timed[socket] \/ open[socket]]
    BY <1>4 DEF SetTimeout
  <2>2. (timed[socket] \/ open[socket]) \in BOOLEAN
    OBVIOUS
  <2>3. timed' \in [Calls -> BOOLEAN]
    BY <2>1, <2>2 DEF TypeOK
  <2> QED
    BY <1>2, <1>4, <2>3 DEF MovesOn, SetTimeout, TypeOK, fields, streams, ghosts
<1>5. CASE PrintRequest(c)
  <2>1. \A s \in Seq(Calls) : Append(s, c) \in Seq(Calls)
    BY AppendProperties
  <2>2. wbuf' \in [Calls -> Seq(Calls)]
    BY <1>5, <2>1 DEF PrintRequest, TypeOK
  <2> QED
    BY <1>2, <1>5, <2>2 DEF MovesOn, PrintRequest, TypeOK, fields, sockets, ghosts
<1>6. CASE FlushRequest(c) \/ CloseWriter(c)
  <2>1. sent' \in [Calls -> Seq(Calls)] /\ wbuf' \in [Calls -> Seq(Calls)]
    BY <1>6, Objects, Flushed DEF FlushRequest, CloseWriter, From, WithWriter, WithReader
  <2> QED
    BY <1>2, <1>6, <2>1 DEF MovesOn, FlushRequest, CloseWriter, TypeOK, fields, ghosts
<1>7. CASE BeginRead(c)
  <2>1. inputBuffer \in Calls /\ rsock[inputBuffer] \in Calls
    BY <1>7, Objects DEF BeginRead, From, WithReader
  <2> QED
    BY <1>2, <1>7, <2>1 DEF MovesOn, BeginRead, TypeOK, fields, sockets, streams
<1>8. CASE ReadLine(c)
  <2>1. rsock[reading[c]] \in Calls
    BY <1>8, Objects DEF ReadLine, From
  <2>2. reply' \in Calls \cup {BareOK, None} /\ line' \in [Calls -> Calls \cup {BareOK, None}]
    BY <1>8, <2>1 DEF ReadLine, TypeOK
  <2> QED
    BY <1>2, <1>8, <2>2 DEF MovesOn, ReadLine, TypeOK, streams, ghosts
<1>9. CASE ReadFails(c) \/ CloseReader(c) \/ CloseSocket(c)
  BY <1>2, <1>9 DEF MovesOn, ReadFails, CloseReader, CloseSocket, TypeOK, fields, sockets, streams, ghosts
<1>10. CASE ParseReply(c) \/ Catch(c) \/ Return(c)
  BY <1>2, <1>10 DEF MovesOn, ParseReply, Catch, Return, TypeOK, fields, sockets, streams, ghosts
<1> QED
  BY <1>3, <1>4, <1>5, <1>6, <1>7, <1>8, <1>9, <1>10 DEF CallStep

LEMMA TypeNext ==
    ASSUME TypeOK, Together, Fields, Streams, [Next]_vars
    PROVE  TypeOK'
<1>1. CASE UNCHANGED vars
  BY <1>1 DEF vars, TypeOK, fields, sockets, streams, ghosts
<1>2. ASSUME NEW c \in Calls, Call(c)
      PROVE  TypeOK'
  <2>1. pc' \in [Calls -> Steps]
    BY <1>2 DEF Call, Goto, TypeOK, Steps
  <2>2. overlapped' \subseteq Calls
    BY TogetherNext
  <2> QED
    BY <1>2, <2>1, <2>2 DEF Call, TypeOK, fields, sockets, streams
<1>3. ASSUME NEW k \in Calls, Serve(k)
      PROVE  TypeOK'
  <2>1. Head(sent[k]) \in Calls
    BY <1>3, HeadTailProperties DEF Serve, TypeOK
  <2>2. /\ line' \in [Calls -> Calls \cup {BareOK, None}] /\ served' \in [Calls -> BOOLEAN]
        /\ handled' \subseteq Calls
    <3>1. \E text \in {Head(sent[k]), BareOK, None} : line' = [line EXCEPT ![k] = text]
      BY <1>3 DEF Serve
    <3>2. handled' = handled \cup {Head(sent[k])} \/ handled' = handled
      BY <1>3 DEF Serve
    <3>3. served' = [served EXCEPT ![k] = TRUE]
      BY <1>3 DEF Serve
    <3>4. line' \in [Calls -> Calls \cup {BareOK, None}]
      BY <2>1, <3>1 DEF TypeOK
    <3> QED
      BY <2>1, <3>2, <3>3, <3>4 DEF TypeOK
  <2>3. UNCHANGED <<pc, fields, open, timed, sent, streams, ghosts>>
    BY <1>3 DEF Serve
  <2> QED
    BY <2>2, <2>3 DEF TypeOK, fields, streams, ghosts
<1> QED
  BY <1>1, <1>2, <1>3, TypeCallStep DEF Next

(* The server sends a reply only when it has handled the request; the      *)
(* phone takes its replies from the server.                                *)
LEMMA RepliesNext ==
    ASSUME TypeOK, Fields, Streams, RepliesBacked, RepliesWereHandled, [Next]_vars
    PROVE  RepliesBacked' /\ RepliesWereHandled'
<1>1. {BareOK, None, Timeout} \cap Calls = {}
  BY SpecialValues
<1>2. ASSUME UNCHANGED <<line, reply, response, handled, returned>>
      PROVE  RepliesBacked' /\ RepliesWereHandled'
  BY <1>2 DEF RepliesBacked, RepliesWereHandled
<1>3. ASSUME NEW k \in Calls, Serve(k)
      PROVE  RepliesBacked' /\ RepliesWereHandled'
  BY <1>1, <1>3 DEF Serve, RepliesBacked, RepliesWereHandled, fields, ghosts, TypeOK
<1>4. ASSUME NEW c \in Calls, ReadLine(c)
      PROVE  RepliesBacked' /\ RepliesWereHandled'
  <2>1. rsock[reading[c]] \in Calls
    BY <1>4, Objects DEF ReadLine, From
  <2> QED
    BY <1>1, <1>4, <2>1 DEF ReadLine, RepliesBacked, RepliesWereHandled, ghosts, TypeOK
<1>5. ASSUME NEW c \in Calls, ParseReply(c) \/ Catch(c) \/ Return(c)
      PROVE  RepliesBacked' /\ RepliesWereHandled'
  BY <1>1, <1>5
     DEF ParseReply, Catch, Return, RepliesBacked, RepliesWereHandled, fields, sockets, ghosts, TypeOK
<1>6. ASSUME NEW c \in Calls,
             \/ CreateSocket(c) \/ SetTimeout(c) \/ MakeWriter(c) \/ MakeReader(c)
             \/ PrintRequest(c) \/ FlushRequest(c) \/ BeginRead(c) \/ ReadFails(c)
             \/ CloseReader(c) \/ CloseWriter(c) \/ CloseSocket(c) \/ Call(c) \/ UNCHANGED vars
      PROVE  UNCHANGED <<line, reply, response, handled, returned>>
  BY <1>6
     DEF CreateSocket, SetTimeout, MakeWriter, MakeReader, PrintRequest, FlushRequest, BeginRead,
         ReadFails, CloseReader, CloseWriter, CloseSocket, Call, fields, sockets, ghosts, vars
<1>7. CASE UNCHANGED vars
  BY <1>2, <1>7 DEF vars, fields, sockets, ghosts
<1> QED
  BY <1>2, <1>3, <1>4, <1>5, <1>6, <1>7 DEF Next, CallStep

--------------------------------------------------------------------------------
(* Calls that run alone *)

(* What a call flushes goes out on its own socket, or on that of a call it *)
(* overlapped with.                                                        *)
LEMMA FlushedAlone ==
    ASSUME TypeOK, Fields, Streams, NEW c \in Calls, NEW e \in Calls, c \notin overlapped,
           OwnLine(c), pc[e] \in WithWriter, FlushWriter(outputBuffer)
    PROVE  sent'[c] \in Seq({c}) /\ wbuf'[c] \in Seq({c})
<1>1. outputBuffer \in Calls /\ wsock[outputBuffer] \in Calls
  BY Objects
<1>2. Own(wsock[outputBuffer], outputBuffer)
  BY <1>1, SpecialValues DEF Streams
<1>3. wsock[outputBuffer] = c => outputBuffer = c
  BY <1>2 DEF Own
<1>4. sent[c] \in Seq({c}) /\ wbuf[c] \in Seq({c}) /\ <<>> \in Seq({c})
  BY DEF OwnLine
<1>5. sent[c] \o wbuf[c] \in Seq({c})
  BY <1>4, ConcatProperties
<1>6. sent'[c] \in {sent[c], sent[c] \o wbuf[c]} /\ wbuf'[c] \in {wbuf[c], <<>>}
  <2>1. sent' = [sent EXCEPT ![wsock[outputBuffer]] =
                   IF open[wsock[outputBuffer]] THEN sent[wsock[outputBuffer]] \o wbuf[outputBuffer]
                   ELSE sent[wsock[outputBuffer]]]
    BY DEF FlushWriter
  <2>2. wbuf' = [wbuf EXCEPT ![outputBuffer] = <<>>]
    BY DEF FlushWriter
  <2> QED
    BY <1>3, <2>1, <2>2 DEF TypeOK
<1> QED
  BY <1>4, <1>5, <1>6

(* Nothing but its own request and the reply to it gets on its wires.      *)
LEMMA OwnLineNext ==
    ASSUME TypeOK, Together, Fields, Streams, Alone, [Next]_vars,
           NEW c \in Calls \ overlapped'
    PROVE  OwnLine(c)'
<1>1. c \in Calls /\ c \notin overlapped /\ OwnLine(c)
  BY TogetherNext DEF Alone
<1>2. CASE UNCHANGED <<sent, wbuf, line>>
  BY <1>1, <1>2 DEF OwnLine
<1>3. ASSUME NEW e \in Calls, PrintRequest(e)
      PROVE  OwnLine(c)'
  <2>1. Own(outputBuffer, e)
    BY <1>3 DEF PrintRequest, From, Fields, WithWriter, WithReader
  <2>2. wbuf' = [wbuf EXCEPT ![outputBuffer] = Append(wbuf[outputBuffer], e)]
        /\ UNCHANGED <<sent, line>>
    BY <1>3 DEF PrintRequest, sockets
  <2>3. wbuf'[c] = wbuf[c] \/ (e = c /\ wbuf'[c] = Append(wbuf[c], c))
    BY <1>1, <2>1, <2>2 DEF Own, TypeOK
  <2>4. Append(wbuf[c], c) \in Seq({c})
    BY <1>1, AppendProperties DEF OwnLine
  <2> QED
    BY <1>1, <2>2, <2>3, <2>4 DEF OwnLine
<1>4. ASSUME NEW e \in Calls, FlushRequest(e) \/ CloseWriter(e)
      PROVE  OwnLine(c)'
  <2>1. FlushWriter(outputBuffer) /\ pc[e] \in WithWriter /\ line' = line
    BY <1>4 DEF FlushRequest, CloseWriter, From, WithWriter, WithReader
  <2> QED
    BY <1>1, <2>1, FlushedAlone DEF OwnLine
<1>5. ASSUME NEW e \in Calls, ReadLine(e)
      PROVE  OwnLine(c)'
  BY <1>1, <1>5 DEF ReadLine, OwnLine, streams, TypeOK
<1>6. ASSUME NEW k \in Calls, Serve(k)
      PROVE  OwnLine(c)'
  <2>1. k = c => Head(sent[k]) = c
    BY <1>1, <1>6, HeadTailProperties DEF Serve, OwnLine
  <2>2. \E text \in {Head(sent[k]), BareOK, None} : line' = [line EXCEPT ![k] = text]
    BY <1>6 DEF Serve
  <2>3. line'[c] \in {line[c], c, BareOK, None}
    BY <1>1, <2>1, <2>2 DEF TypeOK
  <2> QED
    BY <1>1, <1>6, <2>3 DEF Serve, OwnLine, streams
<1>7. ASSUME NEW e \in Calls,
             \/ CreateSocket(e) \/ SetTimeout(e) \/ MakeWriter(e) \/ MakeReader(e)
             \/ BeginRead(e) \/ ReadFails(e) \/ CloseReader(e) \/ CloseSocket(e)
             \/ ParseReply(e) \/ Catch(e) \/ Return(e) \/ Call(e)
      PROVE  UNCHANGED <<sent, wbuf, line>>
  BY <1>7
     DEF CreateSocket, SetTimeout, MakeWriter, MakeReader, BeginRead, ReadFails, CloseReader,
         CloseSocket, ParseReply, Catch, Return, Call, sockets, streams
<1>8. CASE UNCHANGED vars
  BY <1>2, <1>8 DEF vars, sockets, streams
<1> QED
  BY <1>2, <1>3, <1>4, <1>5, <1>6, <1>7, <1>8 DEF Next, CallStep

(* The reply it reads is the one on its own line; no other call writes the *)
(* field between its read and its parse, nor the response before it        *)
(* returns it.                                                             *)
LEMMA OwnReplyNext ==
    ASSUME TypeOK, Together, Fields, Streams, Alone, OwnReplyUnlessOverlapped, [Next]_vars,
           NEW c \in Calls \ overlapped'
    PROVE  OwnReply(c)' /\ (pc'[c] = "done" => returned'[c] \in {c, Timeout})
<1> DEFINE Goal == OwnReply(c)' /\ (pc'[c] = "done" => returned'[c] \in {c, Timeout})
<1>1. /\ c \in Calls /\ c \notin overlapped /\ OwnLine(c) /\ OwnReply(c)
      /\ pc[c] = "done" => returned[c] \in {c, Timeout}
  BY TogetherNext DEF Alone, OwnReplyUnlessOverlapped
<1>2. CASE UNCHANGED <<reply, response, returned>> /\ pc'[c] = pc[c]
  BY <1>1, <1>2 DEF OwnReply
<1>3. ASSUME NEW e \in Calls \ {c}, CallStep(e)
      PROVE  Goal
  <2>1. ~Running(c)
    BY <1>1, <1>3, CallGoesOn DEF Together
  <2>2. pc'[c] = pc[c]
    BY <1>1, <1>3, CallGoesOn DEF TypeOK
  <2>3. returned'[c] = returned[c]
    BY <1>1, <1>3
       DEF CallStep, CreateSocket, SetTimeout, MakeWriter, MakeReader, PrintRequest, FlushRequest,
           BeginRead, ReadLine, ReadFails, CloseReader, CloseWriter, CloseSocket, ParseReply, Catch,
           Return, ghosts, TypeOK
  <2> QED
    BY <1>1, <2>1, <2>2, <2>3 DEF OwnReply, Running, WithReply
<1>4. CASE ReadLine(c)
  <2>1. reading[c] = c /\ rsock[c] # None
    BY <1>1, <1>4 DEF ReadLine, From, Fields, Own
  <2>2. rsock[c] = c
    BY <1>1, <2>1 DEF Streams, Own
  <2>3. reply' \in {c, BareOK}
    BY <1>1, <1>4, <2>1, <2>2 DEF ReadLine, OwnLine
  <2> QED
    BY <1>1, <1>4, <2>3 DEF ReadLine, Goto, OwnReply, WithReply, TypeOK
<1>5. CASE CloseReader(c) \/ CloseWriter(c) \/ CloseSocket(c)
  BY <1>1, <1>5 DEF CloseReader, CloseWriter, CloseSocket, From, Goto, fields, OwnReply, WithReply, TypeOK
<1>6. CASE ParseReply(c) \/ Catch(c) \/ Return(c)
  BY <1>1, <1>6 DEF ParseReply, Catch, Return, From, Goto, fields, OwnReply, WithReply, TypeOK
<1>7. CASE \/ CreateSocket(c) \/ SetTimeout(c) \/ MakeWriter(c) \/ MakeReader(c)
           \/ PrintRequest(c) \/ FlushRequest(c) \/ BeginRead(c) \/ ReadFails(c)
  BY <1>1, <1>7
     DEF CreateSocket, SetTimeout, MakeWriter, MakeReader, PrintRequest, FlushRequest, BeginRead,
         ReadFails, Goto, OwnReply, WithReply, TypeOK
<1>8. ASSUME NEW e \in Calls, Call(e)
      PROVE  Goal
  BY <1>1, <1>8 DEF Call, Goto, fields, OwnReply, WithReply, TypeOK
<1>9. CASE UNCHANGED vars \/ \E k \in Calls : Serve(k)
  BY <1>2, <1>9 DEF vars, Serve, fields, ghosts
<1> QED
  BY <1>1, <1>3, <1>4, <1>5, <1>6, <1>7, <1>8, <1>9 DEF Next, CallStep

--------------------------------------------------------------------------------
(* Theorems *)

(* The invariant: which objects the fields name for each line of           *)
(* sendMessage, where replies come from, and what a lone call can see.     *)
THEOREM Invariance == Spec => []IInv
<1>1. Init => IInv
  <2> SUFFICES ASSUME Init PROVE IInv
    OBVIOUS
  <2>1. TypeOK
    BY DEF Init, TypeOK, Steps
  <2>2. Together /\ Fields /\ Streams
    BY DEF Init, Together, Fields, Streams, Running, WithSocket, WithWriter, WithReader
  <2>3. RepliesBacked /\ RepliesWereHandled
    BY SpecialValues DEF Init, RepliesBacked, RepliesWereHandled
  <2>4. Alone /\ OwnReplyUnlessOverlapped
    BY DEF Init, Alone, OwnLine, OwnReply, OwnReplyUnlessOverlapped, WithReply
  <2> QED
    BY <2>1, <2>2, <2>3, <2>4 DEF IInv
<1>2. IInv /\ [Next]_vars => IInv'
  <2> SUFFICES ASSUME IInv, [Next]_vars PROVE IInv'
    OBVIOUS
  <2>1. TypeOK' /\ Together' /\ Fields' /\ Streams'
    BY TypeNext, TogetherNext, FieldsNext, StreamsNext DEF IInv
  <2>2. RepliesBacked' /\ RepliesWereHandled'
    BY RepliesNext DEF IInv
  <2>3. Alone' /\ OwnReplyUnlessOverlapped'
    BY OwnLineNext, OwnReplyNext DEF IInv, Alone, OwnReplyUnlessOverlapped
  <2> QED
    BY <2>1, <2>2, <2>3 DEF IInv
<1> QED
  BY <1>1, <1>2, PTL DEF Spec

(* The fields and streams of ServerConnector keep their types; no line of  *)
(* sendMessage uses an object that is not there.                           *)
THEOREM TypeCorrect == Spec => []TypeOK
<1>1. IInv => TypeOK
  BY DEF IInv
<1> QED
  BY <1>1, Invariance, PTL

(* A call of sendMessage that no other call ran beside returns the reply   *)
(* to its own request or RESPONSE_TIMEOUT, whatever the objects of earlier *)
(* calls still hold.                                                       *)
THEOREM LoneCallsGetTheirOwnReply == Spec => []OwnReplyUnlessOverlapped
<1>1. IInv => OwnReplyUnlessOverlapped
  BY DEF IInv
<1> QED
  BY <1>1, Invariance, PTL

(* However calls overlap and whatever is lost, sendMessage returns no      *)
(* reply to a request that fleet-io has not handled.                       *)
THEOREM NoFailureBecomesSuccess == Spec => []RepliesWereHandled
<1>1. IInv => RepliesWereHandled
  BY DEF IInv
<1> QED
  BY <1>1, Invariance, PTL

================================================================================
