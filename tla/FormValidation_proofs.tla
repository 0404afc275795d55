------------------------- MODULE FormValidation_proofs -------------------------
(***************************************************************************)
(* Theorems about FormValidation, for any forms, attributes and values:    *)
(* what the page shows is one message that fits the value, and what it     *)
(* posts satisfies the attributes of the model.                            *)
(***************************************************************************)
EXTENDS FormValidation, SequenceTheorems, TLAPS

--------------------------------------------------------------------------------
(* The inductive invariant *)

(* What a container shows when the input's value is v.                     *)
Showing(f, v) ==
    IF Broken(f, v) = {} THEN EmptyContainer
    ELSE [class |-> "error", labels |-> <<[text |-> FirstBroken(f, v), styled |-> FALSE]>>]

(* Until parse has run no input has been checked; afterwards each has the  *)
(* rules of its attributes.                                                *)
Parsed ==
    /\ page = "loading" => submitted = {} /\ highlight = {}
    /\ page = "loading" => rules = ValidationInfo /\ container = [f \in Inputs |-> EmptyContainer]
    /\ page = "ready" => \A f \in Forms[form] : DataVal[f] \subseteq rules[f]

(* An input without rules is never wrong.                                  *)
OnlyWithRules ==
    \A f \in Inputs : Rules(f) = {} => f \notin submitted /\ container[f] = EmptyContainer

IInv ==
    /\ TypeOK /\ Parsed /\ OnlyWithRules
    /\ OneMessage /\ ErrorIsCurrent /\ PostedSatisfiesRules

--------------------------------------------------------------------------------
(* A message replaces the one before: no label is ever found, since none   *)
(* keeps the errorClass.                                                   *)
LEMMA ShownIsShowing ==
    ASSUME TypeOK, NEW f \in Inputs, NEW v
    PROVE  Shown(f, v) = Showing(f, v)
<1>1. container[f].labels \in Seq(Labels)
  BY DEF TypeOK
<1>2. \A n \in DOMAIN container[f].labels : ~container[f].labels[n].styled
  <2>1. ASSUME NEW n \in DOMAIN container[f].labels
        PROVE  container[f].labels[n] \in Labels
    BY <1>1, ElementOfSeq
  <2>2. \A lab \in Labels : lab.styled = FALSE
    BY DEF Labels
  <2> QED
    BY <2>1, <2>2
<1>3. ASSUME NEW text
      PROVE  ShowLabel(container[f], text) = OnError(container[f], [text |-> text, styled |-> TRUE])
  BY <1>2 DEF ShowLabel
<1>4. ASSUME NEW text
      PROVE  ShowLabel(container[f], text)
               = [class |-> "error", labels |-> <<[text |-> text, styled |-> FALSE]>>]
  BY <1>3 DEF OnError
<1> QED
  BY <1>4 DEF Shown, Showing, OnSuccess, EmptyContainer

LEMMA ShowingTypes ==
    ASSUME NEW f, NEW v
    PROVE  /\ Showing(f, v) \in [class : {"valid", "error"}, labels : Seq(Labels)]
           /\ Showing(f, v).class = "error" <=> Broken(f, v) # {}
           /\ Len(Showing(f, v).labels) = IF Showing(f, v).class = "error" THEN 1 ELSE 0
<1>1. CASE Broken(f, v) = {}
  BY <1>1 DEF Showing, EmptyContainer
<1>2. CASE Broken(f, v) # {}
  <2>1. [text |-> FirstBroken(f, v), styled |-> FALSE] \in Labels
    BY DEF Labels, FirstBroken, Methods
  <2>2. Showing(f, v) = [class |-> "error", labels |-> <<[text |-> FirstBroken(f, v), styled |-> FALSE]>>]
    BY <1>2 DEF Showing
  <2> QED
    BY <1>2, <2>1, <2>2
<1> QED
  BY <1>1, <1>2

(* A check leaves the page consistent, and the inputs it was about showing *)
(* what is wrong with the values it was given.                             *)
LEMMA Checked ==
    ASSUME TypeOK, OnlyWithRules, OneMessage, NEW S \in SUBSET Forms[form], NEW v, Check(S, v),
           UNCHANGED <<form, rules>>
    PROVE  /\ submitted' \subseteq Forms[form] /\ highlight' \subseteq submitted'
           /\ container' \in [Inputs -> [class : {"valid", "error"}, labels : Seq(Labels)]]
           /\ untold' = untold \ S
           /\ OnlyWithRules' /\ OneMessage'
           /\ \A f \in submitted' : IF f \in S THEN container'[f] = Showing(f, v[f])
                                    ELSE f \in submitted /\ container'[f] = container[f]
<1> DEFINE bad == {f \in S : Broken(f, v[f]) # {}}
<1>1. S \subseteq Inputs /\ Forms[form] \subseteq Inputs
  BY DEF Inputs, TypeOK
<1>2. /\ submitted' = submitted \cup bad
      /\ highlight' = (highlight \ S) \cup bad
      /\ untold' = untold \ S
  BY DEF Check
<1>3. container' = [f \in Inputs |-> IF f \in S /\ Rules(f) # {} THEN Shown(f, v[f]) ELSE container[f]]
  BY DEF Check
<1>4. \A f \in Inputs : Rules(f) = {} => Broken(f, v[f]) = {}
  BY DEF Broken
<1>5. \A f \in Inputs : container'[f] = IF f \in S THEN Showing(f, v[f]) ELSE container[f]
  <2>1. SUFFICES ASSUME NEW f \in Inputs
                 PROVE  container'[f] = IF f \in S THEN Showing(f, v[f]) ELSE container[f]
    OBVIOUS
  <2>2. CASE f \in S /\ Rules(f) # {}
    BY <1>3, <2>2, ShownIsShowing
  <2>3. CASE f \notin S
    BY <1>3, <2>3
  <2>4. CASE f \in S /\ Rules(f) = {}
    BY <1>3, <1>4, <2>4 DEF OnlyWithRules, Showing
  <2> QED
    BY <2>2, <2>3, <2>4
<1>6. container' \in [Inputs -> [class : {"valid", "error"}, labels : Seq(Labels)]]
  <2>1. \A f \in Inputs : container'[f] \in [class : {"valid", "error"}, labels : Seq(Labels)]
    BY <1>5, ShowingTypes DEF TypeOK
  <2> QED
    BY <1>3, <2>1
<1>7. OnlyWithRules'
  <2>1. \A f : Rules(f)' = Rules(f)
    BY DEF Rules
  <2>2. \A f \in Inputs : Rules(f) = {} => f \notin submitted' /\ container'[f] = EmptyContainer
    BY <1>2, <1>4, <1>5 DEF OnlyWithRules, Showing
  <2> QED
    BY <2>1, <2>2 DEF OnlyWithRules
<1>8. OneMessage'
  <2>1. SUFFICES ASSUME NEW f \in Inputs
                 PROVE  /\ Len(container'[f].labels) = IF container'[f].class = "error" THEN 1 ELSE 0
                        /\ f \in highlight' <=> container'[f].class = "error"
    BY DEF OneMessage
  <2>2. CASE f \in S
    BY <1>2, <1>5, <2>2, ShowingTypes
  <2>3. CASE f \notin S
    BY <1>2, <1>5, <2>3 DEF OneMessage
  <2> QED
    BY <2>2, <2>3
<1>9. submitted' \subseteq Forms[form] /\ highlight' \subseteq submitted'
  BY <1>2 DEF TypeOK
<1>10. \A f \in submitted' : IF f \in S THEN container'[f] = Showing(f, v[f])
                             ELSE f \in submitted /\ container'[f] = container[f]
  BY <1>1, <1>2, <1>5, <1>9
<1> QED
  BY <1>2, <1>6, <1>7, <1>8, <1>9, <1>10

(* On a ready page a check of S, with the values the inputs then have,     *)
(* keeps the invariant, if what it posts is as it should be.               *)
LEMMA CheckKeeps ==
    ASSUME IInv, page = "ready", NEW S \in SUBSET Forms[form], NEW w, Check(S, w),
           value' = w, DOMAIN w = Forms[form], \A g \in Forms[form] : w[g] \in Offers[g],
           \A g \in Forms[form] \ S : w[g] = value[g],
           invalid' \in [Inputs -> {"none", "yes", "no"}],
           UNCHANGED <<form, rules>>, page' \in {"ready", "left"}, PostedSatisfiesRules'
    PROVE  IInv'
<1>1. /\ TypeOK /\ OnlyWithRules /\ OneMessage /\ Parsed /\ ErrorIsCurrent
      /\ form' = form /\ rules' = rules
  BY DEF IInv
<1>2. /\ submitted' \subseteq Forms[form] /\ highlight' \subseteq submitted'
      /\ container' \in [Inputs -> [class : {"valid", "error"}, labels : Seq(Labels)]]
      /\ untold' = untold \ S
      /\ OnlyWithRules' /\ OneMessage'
      /\ \A f \in submitted' : IF f \in S THEN container'[f] = Showing(f, w[f])
                               ELSE f \in submitted /\ container'[f] = container[f]
  BY <1>1, Checked
<1>3. TypeOK'
  BY <1>1, <1>2 DEF TypeOK
<1>4. Parsed'
  BY <1>1 DEF Parsed
<1>5. ErrorIsCurrent'
  <2>1. \A f, x : Broken(f, x)' = Broken(f, x)
    BY <1>1 DEF Broken, Rules
  <2>2. \A f \in submitted' \ untold' : container'[f] = Showing(f, w[f])
    <3>1. SUFFICES ASSUME NEW f \in submitted' \ untold', f \notin S
                   PROVE  container'[f] = Showing(f, w[f])
      BY <1>2
    <3>2. f \in submitted \ untold /\ container'[f] = container[f] /\ w[f] = value[f]
      BY <1>2, <3>1
    <3>3. container[f] = Showing(f, value[f])
      BY <1>1, <3>2 DEF ErrorIsCurrent, Showing
    <3> QED
      BY <3>2, <3>3
  <2>3. SUFFICES ASSUME NEW f \in submitted' \ untold'
                 PROVE  (container[f] = Showing(f, value[f]))'
    BY DEF ErrorIsCurrent, Showing
  <2>4. Broken(f, value[f])' = Broken(f, w[f])
    BY <1>1 DEF Broken, Rules
  <2>5. container'[f] = Showing(f, w[f])
    BY <2>2
  <2>6. FirstBroken(f, value[f])' = FirstBroken(f, w[f])
    BY <2>4 DEF FirstBroken
  <2>7. Showing(f, value[f])' = Showing(f, w[f])
    BY <2>4, <2>6 DEF Showing, EmptyContainer
  <2> QED
    BY <2>5, <2>7
<1> QED
  BY <1>2, <1>3, <1>4, <1>5 DEF IInv

LEMMA InitIInv == Init => IInv
<1>1. SUFFICES ASSUME Init PROVE IInv
  OBVIOUS
<1>2. Forms[form] \subseteq Inputs
  BY <1>1 DEF Init, Inputs
<1>3. <<>> \in Seq(Labels) /\ Len(<<>>) = 0
  OBVIOUS
<1>4. TypeOK
  BY <1>1, <1>2, <1>3, ServedIsOffered DEF Init, TypeOK, Served, ValidationInfo, EmptyContainer
<1>5. Parsed /\ OnlyWithRules /\ ErrorIsCurrent /\ PostedSatisfiesRules
  BY <1>1 DEF Init, Parsed, OnlyWithRules, ErrorIsCurrent, PostedSatisfiesRules
<1>6. OneMessage
  BY <1>1, <1>3 DEF Init, OneMessage, EmptyContainer
<1> QED
  BY <1>4, <1>5, <1>6 DEF IInv

(* parse gives every input the rules its attributes name.                  *)
LEMMA ParseGivesRules ==
    ASSUME NEW f \in Inputs
    PROVE  DataVal[f] \subseteq ParseElement(f) /\ ParseElement(f) \subseteq Methods
BY Attributes DEF ParseElement, Adapt, AddBool, RequiredAdapter, Methods

LEMMA NextIInv == IInv /\ [Next]_vars => IInv'
<1> USE DEF validator
<1>1. SUFFICES ASSUME IInv, [Next]_vars PROVE IInv'
  OBVIOUS
<1>2. /\ TypeOK /\ Parsed /\ OnlyWithRules
      /\ OneMessage /\ ErrorIsCurrent /\ PostedSatisfiesRules
  BY <1>1 DEF IInv
<1>3. Forms[form] \subseteq Inputs
  BY <1>2 DEF TypeOK, Inputs
<1>4. CASE UNCHANGED vars
  BY <1>2, <1>4 DEF vars, IInv, TypeOK, Parsed, OnlyWithRules, OneMessage, ErrorIsCurrent,
     PostedSatisfiesRules, Rules, Broken, FirstBroken
<1>5. CASE Parse
  <2>1. /\ page = "loading" /\ page' = "ready"
        /\ rules' = [f \in Inputs |-> IF f \in Forms[form] /\ DataVal[f] # {} THEN ParseElement(f)
                                      ELSE rules[f]]
        /\ UNCHANGED <<form, value, submitted, invalid, highlight, container, untold, post>>
    BY <1>5 DEF Parse
  <2>2. submitted = {} /\ highlight = {} /\ container = [f \in Inputs |-> EmptyContainer]
    BY <1>2, <2>1 DEF Parsed
  <2>3. rules' \in [Inputs -> SUBSET Methods]
    BY <1>2, <2>1, ParseGivesRules DEF TypeOK
  <2>4. TypeOK'
    BY <1>2, <2>1, <2>3 DEF TypeOK
  <2>5. Parsed'
    BY <1>3, <2>1, ParseGivesRules DEF Parsed
  <2>6. OnlyWithRules' /\ ErrorIsCurrent' /\ PostedSatisfiesRules'
    BY <2>1, <2>2 DEF OnlyWithRules, ErrorIsCurrent, PostedSatisfiesRules
  <2>7. OneMessage'
    BY <1>2, <2>1 DEF OneMessage
  <2> QED
    BY <2>4, <2>5, <2>6, <2>7 DEF IInv
<1>6. CASE Submit
  <2>1. /\ page = "ready" /\ Check(Elements, value) /\ UNCHANGED <<form, value, rules>>
        /\ page' \in {"ready", "left"}
        /\ invalid' \in [Inputs -> {"none", "yes", "no"}]
    BY <1>6 DEF Submit, PostForm
  <2>2. PostedSatisfiesRules'
    <3>1. SUFFICES ASSUME page' = "left", NEW f \in Forms[form], NEW m \in DataVal[f]
                   PROVE  post'.values[f] \in Passes[m]
      BY <2>1 DEF PostedSatisfiesRules
    <3>2. /\ {g \in Elements : Broken(g, value[g]) # {}} = {}
          /\ post'.values = value
      BY <2>1, <3>1, <1>6 DEF Submit, PostForm
    <3>3. m \in Rules(f)
      BY <1>2, <2>1 DEF Parsed, Rules
    <3>4. f \in Elements
      BY <3>3 DEF Elements
    <3> QED
      BY <3>2, <3>3, <3>4 DEF Broken
  <2>3. Elements \subseteq Forms[form]
    BY DEF Elements
  <2>4. DOMAIN value = Forms[form] /\ \A g \in Forms[form] : value[g] \in Offers[g]
    BY <1>2 DEF TypeOK
  <2> QED
    BY <1>1, <2>1, <2>2, <2>3, <2>4, CheckKeeps
<1>7. CASE SubmitEarly
  <2>1. /\ page' = "left" /\ post'.early
        /\ UNCHANGED <<form, value, rules, submitted, invalid, highlight, container, untold>>
    BY <1>7 DEF SubmitEarly, PostForm
  <2>2. TypeOK'
    BY <1>2, <2>1 DEF TypeOK
  <2>3. Parsed' /\ ErrorIsCurrent' /\ PostedSatisfiesRules'
    BY <2>1 DEF Parsed, ErrorIsCurrent, PostedSatisfiesRules
  <2>4. OnlyWithRules' /\ OneMessage'
    BY <1>2, <2>1 DEF OnlyWithRules, OneMessage, Rules
  <2> QED
    BY <2>2, <2>3, <2>4 DEF IInv
<1>8. CASE Open
  <2>2. PICK p \in DOMAIN Forms : form' = p /\ value' = Served(p)
    BY <1>8 DEF Open
  <2>3. /\ page' = "loading" /\ rules' = ValidationInfo
        /\ submitted' = {} /\ highlight' = {} /\ untold' = {}
        /\ invalid' = [f \in Inputs |-> "none"]
        /\ container' = [f \in Inputs |-> EmptyContainer]
    BY <1>8 DEF Open
  <2>4. <<>> \in Seq(Labels) /\ Len(<<>>) = 0 /\ Forms[p] \subseteq Inputs
    BY DEF Inputs
  <2>5. TypeOK'
    BY <2>2, <2>3, <2>4, ServedIsOffered DEF TypeOK, Served, ValidationInfo, EmptyContainer
  <2>6. Parsed' /\ OnlyWithRules' /\ ErrorIsCurrent' /\ PostedSatisfiesRules'
    BY <2>3 DEF Parsed, OnlyWithRules, ErrorIsCurrent, PostedSatisfiesRules
  <2>7. OneMessage'
    BY <2>3, <2>4 DEF OneMessage, EmptyContainer
  <2> QED
    BY <2>5, <2>6, <2>7 DEF IInv
<1>9. ASSUME NEW f \in Forms[form], NEW v \in Offers[f], Set(f, v)
      PROVE  /\ DOMAIN value' = Forms[form]
             /\ \A g \in Forms[form] : value'[g] \in Offers[g]
             /\ \A g \in Forms[form] : g # f => value'[g] = value[g]
  BY <1>2, <1>9 DEF Set, TypeOK
<1>10. ASSUME NEW f \in Forms[form], NEW w, Element(f, w)
       PROVE  Check({f}, w) /\ invalid' \in [Inputs -> {"none", "yes", "no"}]
  BY <1>2, <1>3, <1>10 DEF Element, TypeOK
<1>11. ASSUME NEW f \in Forms[form], NEW v \in Offers[f], OnKeyUp(f, v)
       PROVE  IInv'
  <2>1. page = "ready" /\ Set(f, v) /\ UNCHANGED <<form, page, rules, post>>
    BY <1>11 DEF OnKeyUp
  <2>2. CASE Element(f, value')
    <3>1. Check({f}, value') /\ invalid' \in [Inputs -> {"none", "yes", "no"}]
      BY <1>10, <2>2
    <3>2. PostedSatisfiesRules'
      BY <2>1 DEF PostedSatisfiesRules
    <3>3. {f} \in SUBSET Forms[form]
      OBVIOUS
    <3>4. /\ DOMAIN value' = Forms[form]
          /\ \A g \in Forms[form] : value'[g] \in Offers[g]
          /\ \A g \in Forms[form] \ {f} : value'[g] = value[g]
      BY <1>9, <2>1
    <3> QED
      BY <1>1, <2>1, <3>1, <3>2, <3>3, <3>4, CheckKeeps
  <2>3. CASE f \notin submitted /\ UNCHANGED <<submitted, invalid, highlight, container, untold>>
    <3>1. TypeOK'
      BY <1>2, <1>9, <2>1, <2>3 DEF TypeOK
    <3>2. Parsed' /\ PostedSatisfiesRules'
      BY <1>2, <2>1 DEF Parsed, PostedSatisfiesRules
    <3>3. OnlyWithRules' /\ OneMessage'
      BY <1>2, <2>1, <2>3 DEF OnlyWithRules, OneMessage, Rules
    <3>4. ErrorIsCurrent'
      <4>1. \A g \in submitted \ untold : value'[g] = value[g]
        BY <1>2, <1>9, <2>1, <2>3 DEF TypeOK
      <4> QED
        BY <1>2, <2>1, <2>3, <4>1 DEF ErrorIsCurrent, Broken, FirstBroken, Rules, EmptyContainer
    <3> QED
      BY <3>1, <3>2, <3>3, <3>4 DEF IInv
  <2> QED
    BY <1>11, <2>2, <2>3 DEF OnKeyUp
<1>12. ASSUME NEW f \in Forms[form], NEW v \in Offers[f], Change(f, v)
       PROVE  IInv'
  <2>1. /\ page # "left" /\ Set(f, v) /\ UNCHANGED <<form, page, validator, post>>
        /\ untold' = IF page = "ready" THEN untold \cup {f} ELSE untold
    BY <1>12 DEF Change
  <2>2. TypeOK'
    BY <1>2, <1>9, <2>1 DEF TypeOK
  <2>3. Parsed' /\ PostedSatisfiesRules'
    BY <1>2, <2>1 DEF Parsed, PostedSatisfiesRules
  <2>4. OnlyWithRules' /\ OneMessage'
    BY <1>2, <2>1 DEF OnlyWithRules, OneMessage, Rules
  <2>5. ErrorIsCurrent'
    <3>1. SUFFICES ASSUME page = "ready" PROVE ErrorIsCurrent'
      BY <2>1 DEF ErrorIsCurrent
    <3>2. \A g \in submitted' \ untold' : g \in submitted \ untold /\ value'[g] = value[g]
      BY <1>2, <1>9, <2>1, <3>1 DEF TypeOK
    <3> QED
      BY <1>2, <2>1, <3>1, <3>2 DEF ErrorIsCurrent, Broken, FirstBroken, Rules, EmptyContainer
  <2> QED
    BY <2>2, <2>3, <2>4, <2>5 DEF IInv
<1>13. ASSUME NEW f \in Forms[form], OnFocusOut(f)
       PROVE  IInv'
  <2>1. page = "ready" /\ Element(f, value) /\ UNCHANGED <<form, page, value, rules, post>>
    BY <1>13 DEF OnFocusOut
  <2>2. Check({f}, value) /\ invalid' \in [Inputs -> {"none", "yes", "no"}]
    BY <1>10, <2>1
  <2>3. PostedSatisfiesRules'
    BY <2>1 DEF PostedSatisfiesRules
  <2>4. DOMAIN value = Forms[form] /\ \A g \in Forms[form] : value[g] \in Offers[g]
    BY <1>2 DEF TypeOK
  <2>5. {f} \in SUBSET Forms[form]
    OBVIOUS
  <2> QED
    BY <1>1, <2>1, <2>2, <2>3, <2>4, <2>5, CheckKeeps
<1> QED
  BY <1>1, <1>4, <1>5, <1>6, <1>7, <1>8, <1>11, <1>12, <1>13 DEF Next

--------------------------------------------------------------------------------
(* What the controller makes of a post *)

(* A post from a ready page has been through the rules of every input, the *)
(* one of its type included, and is saved if the binder takes all of it.   *)
Vetted ==
    page = "left" /\ ~post.early =>
        /\ \A f \in Forms[form] :
              /\ post.values[f] \in Offers[f]
              /\ \A m \in DataVal[f] : post.values[f] \in Passes[m]
              /\ f \in NumberType => post.values[f] \in Passes["number"]
        /\ post.saved <=> \A f \in Forms[form] : post.values[f] \in Binds[f]

LEMMA VettedNext == IInv /\ Vetted /\ [Next]_vars => Vetted'
<1>1. SUFFICES ASSUME IInv, Vetted, [Next]_vars PROVE Vetted'
  OBVIOUS
<1>2. TypeOK /\ Parsed
  BY <1>1 DEF IInv
<1>3. CASE Submit
  <2>1. SUFFICES ASSUME page' = "left" PROVE Vetted'
    BY DEF Vetted
  <2>2. /\ page = "ready" /\ form' = form
        /\ {g \in Elements : Broken(g, value[g]) # {}} = {}
        /\ post' = [values |-> value, early |-> FALSE,
                    saved |-> \A f \in Forms[form] : value[f] \in Binds[f]]
    BY <1>3, <2>1 DEF Submit, PostForm
  <2>3. ASSUME NEW f \in Forms[form], NEW m \in Rules(f) PROVE value[f] \in Passes[m]
    BY <2>2, <2>3 DEF Elements, Broken
  <2>4. ASSUME NEW f \in Forms[form]
        PROVE  DataVal[f] \subseteq Rules(f) /\ (f \in NumberType => "number" \in Rules(f))
    BY <1>2, <2>2 DEF Parsed, Rules
  <2>5. \A f \in Forms[form] : value[f] \in Offers[f]
    BY <1>2 DEF TypeOK
  <2>6. post'.values = value /\ (post'.saved <=> \A f \in Forms[form] : value[f] \in Binds[f])
    BY <2>2
  <2> QED
    BY <2>2, <2>3, <2>4, <2>5, <2>6 DEF Vetted
<1>4. CASE SubmitEarly
  BY <1>4 DEF SubmitEarly, PostForm, Vetted
<1>5. CASE Parse \/ Open
  BY <1>5 DEF Parse, Open, Vetted
<1>6. CASE UNCHANGED vars
  BY <1>1, <1>6 DEF vars, Vetted
<1>7. ASSUME NEW f \in Forms[form], NEW v \in Offers[f], OnKeyUp(f, v) \/ Change(f, v)
      PROVE  Vetted'
  BY <1>7 DEF OnKeyUp, Change, Vetted
<1>8. ASSUME NEW f \in Forms[form], OnFocusOut(f)
      PROVE  Vetted'
  BY <1>8 DEF OnFocusOut, Vetted
<1> QED
  BY <1>1, <1>3, <1>4, <1>5, <1>6, <1>7, <1>8 DEF Next

--------------------------------------------------------------------------------
(* The theorems *)

(* IInv holds in every state of the page, through parsing, keys, the mouse, *)
(* the focus, submits and the next page.                                   *)
THEOREM Invariance == Spec => []IInv
BY InitIInv, NextIInv, PTL DEF Spec

(* The variables of the page and of the validator keep their types.        *)
THEOREM TypeCorrect == Spec => []TypeOK
<1>1. IInv => TypeOK
  BY DEF IInv
<1> QED
  BY <1>1, Invariance, PTL

(* showLabel never finds the label it made before, and yet a container of  *)
(* the error class has one message: onError empties it first.              *)
THEOREM OneMessagePerInput == Spec => []OneMessage
<1>1. IInv => OneMessage
  BY DEF IInv
<1> QED
  BY <1>1, Invariance, PTL

(* An input that was wrong once shows what is wrong with the value it has, *)
(* unless that came without an event.                                      *)
THEOREM ErrorsAreCurrent == Spec => []ErrorIsCurrent
<1>1. IInv => ErrorIsCurrent
  BY DEF IInv
<1> QED
  BY <1>1, Invariance, PTL

(* What is posted from a ready page satisfies the attributes of the model. *)
THEOREM PostedIsValid == Spec => []PostedSatisfiesRules
<1>1. IInv => PostedSatisfiesRules
  BY DEF IInv
<1> QED
  BY <1>1, Invariance, PTL

(* What AddTrucker and SetRules drop without a word was posted before the  *)
(* scripts had run, or is a value on which the rules are weaker than the   *)
(* binder.                                                                 *)
THEOREM DropsAreUnseen == Spec => []DroppedOnlyUnseen
<1>1. Init => Vetted
  BY DEF Init, Vetted
<1>2. IInv /\ Vetted => DroppedOnlyUnseen
  <2>1. SUFFICES ASSUME TypeOK, Vetted, page = "left", ~post.early,
                        \A f \in Forms[form] : post.values[f] \notin {"blank", "fraction", "huge"}
                 PROVE  post.saved
    BY DEF IInv, DroppedOnlyUnseen
  <2>2. ASSUME NEW f \in Forms[form] PROVE post.values[f] \in Binds[f]
    <3>1. f \in Inputs
      BY <2>1 DEF TypeOK, Inputs
    <3>2. post.values[f] \in Offers[f] \ {"blank", "fraction", "huge"}
      BY <2>1 DEF Vetted
    <3> QED
      BY <2>1, <3>1, <3>2, ModelBehindInput DEF Vetted
  <2> QED
    BY <2>1, <2>2 DEF Vetted
<1> QED
  BY <1>1, <1>2, VettedNext, Invariance, PTL DEF Spec

================================================================================
