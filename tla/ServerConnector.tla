---------------------------- MODULE ServerConnector ----------------------------
(***************************************************************************)
(* ServerConnector.sendMessage of the phone, one field access per step.    *)
(* MainRepository is a singleton and owns one connector; every location    *)
(* and every button press runs in a coroutine of its own on Dispatchers.IO *)
(* so that calls of sendMessage overlap, and they share the connector's    *)
(* fields socket, outputBuffer, inputBuffer, reply and response.           *)
(*                                                                         *)
(* A call makes one SSLSocket, one PrintWriter and one BufferedReader; the *)
(* objects are named after the call that made them, and a field names the  *)
(* object it refers to.  The server reads a connection once and answers    *)
(* the first request it finds there (ssl_server.cpp).                      *)
(***************************************************************************)
EXTENDS Integers, Sequences

CONSTANTS
    Calls,       \* calls of sendMessage; a reply is named after the call it answers
    Timeout,     \* the response RESPONSE_TIMEOUT
    BareOK,      \* a line that is no JSON object
    None

ASSUME SpecialValues == Calls \cap {Timeout, BareOK, None} = {}

VARIABLES
    pc,          \* call -> the line it executes next
    socket, outputBuffer, inputBuffer, reply, response,   \* the shared fields
    open,        \* socket -> not closed by the phone
    timed,       \* socket -> soTimeout was set
    sent,        \* socket -> the requests that went out on it
    served,      \* socket -> the server is done with the connection
    line,        \* socket -> the unread line of the server
    wsock, wbuf, \* writer -> the socket it writes to, the requests in its buffer
    rsock,       \* reader -> the socket it reads from
    reading,     \* call -> the reader its readLine was called on
    bounded,     \* call -> that socket's timeout was set when readLine began
    handled,     \* the requests the server handled
    returned,    \* call -> what sendMessage returned
    overlapped   \* history: the calls that ran beside another one

fields == <<socket, outputBuffer, inputBuffer, reply, response>>
sockets == <<open, timed, sent, served, line>>
streams == <<wsock, wbuf, rsock>>
ghosts == <<reading, bounded, returned, overlapped>>
vars == <<pc, fields, sockets, streams, ghosts, handled>>

Steps == {"idle", "create", "timeout", "writer", "reader", "print", "flush", "read",
          "reading", "closeIn", "closeOut", "closeSocket", "parse", "catch", "return",
          "done"}

Running(c) == pc[c] \notin {"idle", "done"}

--------------------------------------------------------------------------------
Init ==
    /\ pc = [c \in Calls |-> "idle"]
    /\ socket = None /\ outputBuffer = None /\ inputBuffer = None
    /\ reply = None /\ response = None
    /\ open = [c \in Calls |-> FALSE]
    /\ timed = [c \in Calls |-> FALSE]
    /\ sent = [c \in Calls |-> <<>>]
    /\ served = [c \in Calls |-> FALSE]
    /\ line = [c \in Calls |-> None]
    /\ wsock = [c \in Calls |-> None]
    /\ wbuf = [c \in Calls |-> <<>>]
    /\ rsock = [c \in Calls |-> None]
    /\ reading = [c \in Calls |-> None]
    /\ bounded = [c \in Calls |-> FALSE]
    /\ handled = {}
    /\ returned = [c \in Calls |-> None]
    /\ overlapped = {}

From(c, step) == pc[c] = step
Goto(c, step) == pc' = [pc EXCEPT ![c] = step]

(* A coroutine calls sendMessage. *)
Call(c) ==
    /\ From(c, "idle") /\ Goto(c, "create")
    /\ LET others == {d \in Calls : Running(d)}
       IN  overlapped' = IF others = {} THEN overlapped ELSE overlapped \cup others \cup {c}
    /\ UNCHANGED <<fields, sockets, streams, reading, bounded, returned, handled>>

(* socket = socketFactory.createSocket(...) connects, or throws. *)
CreateSocket(c) ==
    /\ From(c, "create")
    /\ \/ /\ Goto(c, "timeout")
          /\ socket' = c
          /\ open' = [open EXCEPT ![c] = TRUE]
       \/ Goto(c, "catch") /\ UNCHANGED <<socket, open>>
    /\ UNCHANGED <<outputBuffer, inputBuffer, reply, response, timed, sent, served, line>>
    /\ UNCHANGED <<streams, ghosts, handled>>

(* Mutant: the assignment to soTimeout is dropped. *)
SetNoTimeout(c) ==
    /\ From(c, "timeout")
    /\ Goto(c, IF open[socket] THEN "writer" ELSE "catch")
    /\ UNCHANGED <<fields, sockets, streams, ghosts, handled>>

(* socket.soTimeout = SOCKET_TIMEOUT throws when the socket is closed. *)
SetTimeout(c) ==
    /\ From(c, "timeout")
    /\ Goto(c, IF open[socket] THEN "writer" ELSE "catch")
    /\ timed' = [timed EXCEPT ![socket] = @ \/ open[socket]]
    /\ UNCHANGED <<fields, open, sent, served, line, streams, ghosts, handled>>

(* outputBuffer = PrintWriter(... socket.outputStream) *)
MakeWriter(c) ==
    /\ From(c, "writer")
    /\ IF open[socket]
       THEN /\ Goto(c, "reader")
            /\ wsock' = [wsock EXCEPT ![c] = socket]
            /\ outputBuffer' = c
       ELSE Goto(c, "catch") /\ UNCHANGED <<wsock, outputBuffer>>
    /\ UNCHANGED <<socket, inputBuffer, reply, response, sockets, wbuf, rsock, ghosts, handled>>

(* inputBuffer = BufferedReader(... socket.inputStream) *)
MakeReader(c) ==
    /\ From(c, "reader")
    /\ IF open[socket]
       THEN /\ Goto(c, "print")
            /\ rsock' = [rsock EXCEPT ![c] = socket]
            /\ inputBuffer' = c
       ELSE Goto(c, "catch") /\ UNCHANGED <<rsock, inputBuffer>>
    /\ UNCHANGED <<socket, outputBuffer, reply, response, sockets, wsock, wbuf, ghosts, handled>>

(* outputBuffer.print(msg + NUL) fills whatever writer the field names. *)
PrintRequest(c) ==
    /\ From(c, "print") /\ Goto(c, "flush")
    /\ wbuf' = [wbuf EXCEPT ![outputBuffer] = Append(@, c)]
    /\ UNCHANGED <<fields, sockets, wsock, rsock, ghosts, handled>>

(* What a writer holds goes out on its socket; a PrintWriter swallows the   *)
(* exception of a closed one.                                               *)
FlushWriter(w) ==
    /\ wbuf' = [wbuf EXCEPT ![w] = <<>>]
    /\ sent' = [sent EXCEPT ![wsock[w]] = IF open[wsock[w]] THEN @ \o wbuf[w] ELSE @]

FlushRequest(c) ==
    /\ From(c, "flush") /\ Goto(c, "read")
    /\ FlushWriter(outputBuffer)
    /\ UNCHANGED <<fields, open, timed, served, line, wsock, rsock, ghosts, handled>>

(* inputBuffer.readLine() begins; SO_TIMEOUT counts if it is set by now. *)
BeginRead(c) ==
    /\ From(c, "read") /\ Goto(c, "reading")
    /\ reading' = [reading EXCEPT ![c] = inputBuffer]
    /\ bounded' = [bounded EXCEPT ![c] = timed[rsock[inputBuffer]]]
    /\ UNCHANGED <<fields, sockets, streams, returned, overlapped, handled>>

(* The line has come. *)
ReadLine(c) ==
    /\ From(c, "reading") /\ Goto(c, "closeIn")
    /\ LET k == rsock[reading[c]]
       IN  /\ open[k] /\ line[k] # None
           /\ reply' = line[k]
           /\ line' = [line EXCEPT ![k] = None]
    /\ UNCHANGED <<socket, outputBuffer, inputBuffer, response, open, timed, sent, served>>
    /\ UNCHANGED <<streams, ghosts, handled>>

(* No line will come (readLine returns null, which reply does not take), or *)
(* the socket was closed under the reader, or the time is up.               *)
ReadFails(c) ==
    /\ From(c, "reading") /\ Goto(c, "catch")
    /\ LET k == rsock[reading[c]]
       IN  ~open[k] \/ (line[k] = None /\ (served[k] \/ bounded[c]))
    /\ UNCHANGED <<fields, sockets, streams, ghosts, handled>>

(* inputBuffer.close() waits for a readLine of the same reader. *)
CloseReader(c) ==
    /\ From(c, "closeIn") /\ Goto(c, "closeOut")
    /\ \A d \in Calls : ~(pc[d] = "reading" /\ reading[d] = inputBuffer)
    /\ open' = [open EXCEPT ![rsock[inputBuffer]] = FALSE]
    /\ UNCHANGED <<fields, timed, sent, served, line, streams, ghosts, handled>>

(* outputBuffer.close() flushes first. *)
CloseWriter(c) ==
    /\ From(c, "closeOut") /\ Goto(c, "closeSocket")
    /\ FlushWriter(outputBuffer)
    /\ open' = [open EXCEPT ![wsock[outputBuffer]] = FALSE]
    /\ UNCHANGED <<fields, timed, served, line, wsock, rsock, ghosts, handled>>

CloseSocket(c) ==
    /\ From(c, "closeSocket") /\ Goto(c, "parse")
    /\ open' = [open EXCEPT ![socket] = FALSE]
    /\ UNCHANGED <<fields, timed, sent, served, line, streams, ghosts, handled>>

(* Mutant: a line that is no object is taken for a success. *)
ParseReplyLenient(c) ==
    /\ From(c, "parse") /\ Goto(c, "return")
    /\ response' = IF reply = BareOK THEN c ELSE reply
    /\ UNCHANGED <<socket, outputBuffer, inputBuffer, reply, sockets, streams, ghosts, handled>>

(* Mutant: a line that is no object parses to a null response. *)
ParseReplyNull(c) ==
    /\ From(c, "parse") /\ Goto(c, "return")
    /\ response' = reply
    /\ UNCHANGED <<socket, outputBuffer, inputBuffer, reply, sockets, streams, ghosts, handled>>

(* response = Gson().fromJson(reply, ...) throws on a line that is no object. *)
ParseReply(c) ==
    /\ From(c, "parse")
    /\ IF reply = BareOK
       THEN Goto(c, "catch") /\ UNCHANGED response
       ELSE Goto(c, "return") /\ response' = reply
    /\ UNCHANGED <<socket, outputBuffer, inputBuffer, reply, sockets, streams, ghosts, handled>>

(* Mutant: the exception is logged and the last response stays. *)
CatchAndKeep(c) ==
    /\ From(c, "catch") /\ Goto(c, "return")
    /\ UNCHANGED <<fields, sockets, streams, ghosts, handled>>

Catch(c) ==
    /\ From(c, "catch") /\ Goto(c, "return")
    /\ response' = Timeout
    /\ UNCHANGED <<socket, outputBuffer, inputBuffer, reply, sockets, streams, ghosts, handled>>

(* return response *)
Return(c) ==
    /\ From(c, "return") /\ Goto(c, "done")
    /\ returned' = [returned EXCEPT ![c] = response]
    /\ UNCHANGED <<fields, sockets, streams, reading, bounded, overlapped, handled>>

(* fleet-io reads connection k once and handles the first request in it;   *)
(* the reply comes back or is lost, or no handler ran at all: no database  *)
(* (the reply is the text OK), or a server or network that went away.      *)
Serve(k) ==
    /\ sent[k] # <<>> /\ ~served[k]
    /\ served' = [served EXCEPT ![k] = TRUE]
    /\ \/ /\ handled' = handled \cup {Head(sent[k])}
          /\ \E text \in {Head(sent[k]), None} : line' = [line EXCEPT ![k] = text]
       \/ /\ \E text \in {BareOK, None} : line' = [line EXCEPT ![k] = text]
          /\ UNCHANGED handled
    /\ UNCHANGED <<pc, fields, open, timed, sent, streams, ghosts>>

CallStep(c) ==
    \/ CreateSocket(c) \/ SetTimeout(c) \/ MakeWriter(c) \/ MakeReader(c)
    \/ PrintRequest(c) \/ FlushRequest(c)
    \/ BeginRead(c) \/ ReadLine(c) \/ ReadFails(c)
    \/ CloseReader(c) \/ CloseWriter(c) \/ CloseSocket(c)
    \/ ParseReply(c) \/ Catch(c) \/ Return(c)

Next == \E c \in Calls : Call(c) \/ CallStep(c) \/ Serve(c)

Spec == Init /\ [][Next]_vars

(* A coroutine that can go on does (Dispatchers.IO has threads to spare);   *)
(* nothing is assumed of the server and the network.                        *)
FairSpec == Spec /\ \A c \in Calls : WF_vars(CallStep(c))

--------------------------------------------------------------------------------
(* Properties *)

TypeOK ==
    /\ pc \in [Calls -> Steps]
    /\ socket \in Calls \cup {None}
    /\ outputBuffer \in Calls \cup {None}
    /\ inputBuffer \in Calls \cup {None}
    /\ reply \in Calls \cup {BareOK, None}
    /\ response \in Calls \cup {Timeout, None}
    /\ open \in [Calls -> BOOLEAN]
    /\ timed \in [Calls -> BOOLEAN]
    /\ sent \in [Calls -> Seq(Calls)]
    /\ served \in [Calls -> BOOLEAN]
    /\ line \in [Calls -> Calls \cup {BareOK, None}]
    /\ wsock \in [Calls -> Calls \cup {None}]
    /\ wbuf \in [Calls -> Seq(Calls)]
    /\ rsock \in [Calls -> Calls \cup {None}]
    /\ reading \in [Calls -> Calls \cup {None}]
    /\ bounded \in [Calls -> BOOLEAN]
    /\ handled \subseteq Calls
    /\ returned \in [Calls -> Calls \cup {Timeout, None}]
    /\ overlapped \subseteq Calls

(* A call that ran alone returns the reply to its own request or           *)
(* RESPONSE_TIMEOUT, whatever earlier calls left in the fields.            *)
OwnReplyUnlessOverlapped ==
    \A c \in Calls \ overlapped :
        pc[c] = "done" => returned[c] \in {c, Timeout}

(* A reply that a call returns, its own or not, stands for a request the    *)
(* server handled: no failure is turned into a success.                     *)
RepliesWereHandled ==
    \A c \in Calls : returned[c] \in Calls => returned[c] \in handled

(* A call that runs alone returns, even if the server never answers: the   *)
(* socket it waits on has its timeout set.  (Overlapping calls can end up  *)
(* in readLine on a socket whose timeout nobody has set yet.)              *)
CallsReturnUnlessOverlapped ==
    \A c \in Calls : Running(c) ~> (pc[c] = "done" \/ c \in overlapped)

================================================================================
