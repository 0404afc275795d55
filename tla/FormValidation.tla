----------------------------- MODULE FormValidation -----------------------------
(***************************************************************************)
(* The forms AddTrucker and SetRules between the browser and the           *)
(* controller: jquery.validate.unobtrusive turns the data-val attributes   *)
(* of the inputs into rules, jquery.validate checks them when a key, the   *)
(* focus or a submit tells it to, the span beside the input shows the      *)
(* outcome, and what is posted is checked once more, without a word, by    *)
(* FleetController.                                                        *)
(*                                                                         *)
(* A value is a class of texts: what a rule, the browser or the binder     *)
(* tells apart.                                                            *)
(***************************************************************************)
EXTENDS Naturals, Sequences, FiniteSets

CONSTANTS
    Forms,      \* the inputs of each form
    DataVal,    \* the data-val attributes of each input: names of adapters
    NumberType, \* the inputs of type number
    Initial,    \* the value an input is served with
    Offers,     \* the values an input can be given
    Passes,     \* the values that satisfy each method of the validator
    Native,     \* the values with which the browser itself submits an input
    Binds       \* the values the controller's model takes

Inputs == UNION {Forms[p] : p \in DOMAIN Forms}
Methods == {"required", "number", "__dummy__"}

ASSUME Attributes == DataVal \in [Inputs -> SUBSET {"required", "number"}]
ASSUME ServedIsOffered == \A f \in Inputs : Initial[f] \in Offers[f]

(* The tag helpers derive the attributes and the type of an input from its *)
(* property in the model, which is also what the binder reads: they differ *)
(* on a text of blanks, a fraction and a number beyond 32 bits only.       *)
ASSUME ModelBehindInput ==
    \A f \in Inputs : \A v \in Offers[f] \ {"blank", "fraction", "huge"} :
        /\ \A m \in DataVal[f] : v \in Passes[m]
        /\ f \in NumberType => v \in Passes["number"]
        => v \in Binds[f]

VARIABLES
    form,       \* the form on the page
    page,       \* loading, ready, or left for the controller
    value,      \* what is in the inputs
    rules,      \* options.rules of validationInfo
    submitted,  \* inputs named in validator.submitted
    invalid,    \* validator.invalid, "none" for a name that is not in it
    highlight,  \* inputs of the class input-validation-error
    container,  \* the span with data-valmsg-for: its class and its labels
    untold,     \* history: inputs changed without an event since their check
    post        \* what reached the controller last, and whether it saved it

validator == <<rules, submitted, invalid, highlight, container>>
vars == <<form, page, value, validator, untold, post>>

(* validationInfo: the options of a form no element of which was parsed. *)
ValidationInfo == [f \in Inputs |-> {}]

NoPost == [values |-> <<>>, early |-> FALSE, saved |-> FALSE]

EmptyContainer == [class |-> "valid", labels |-> <<>>]

Served(p) == [f \in Forms[p] |-> Initial[f]]

Init ==
    /\ form \in DOMAIN Forms
    /\ page = "loading"
    /\ value = Served(form)
    /\ rules = ValidationInfo
    /\ submitted = {} /\ highlight = {} /\ untold = {}
    /\ invalid = [f \in Inputs |-> "none"]
    /\ container = [f \in Inputs |-> EmptyContainer]
    /\ post = NoPost

--------------------------------------------------------------------------------
(* jquery.validate.unobtrusive: from attributes to rules *)

(* addBool and the adapter of required: a rule of the adapter's name,       *)
(* without parameters (no input is a checkbox).                             *)
AddBool(adapter) == adapter
RequiredAdapter == "required"
Adapt(adapter) == IF adapter = "required" THEN RequiredAdapter ELSE AddBool(adapter)

(* Mutant: only the first adapter that matches is applied. *)
ParseElementFirst(f) ==
    {IF "required" \in DataVal[f] THEN "required" ELSE "number"} \cup {"__dummy__"}

(* parseElement: every adapter whose attribute the input has adds its rule; *)
(* __dummy__ is there in any case.                                          *)
ParseElement(f) == {Adapt(a) : a \in DataVal[f]} \cup {"__dummy__"}

(* parse looks at the inputs with data-val=true; the input without          *)
(* attributes has none.                                                     *)
Parse ==
    /\ page = "loading"
    /\ page' = "ready"
    /\ rules' = [f \in Inputs |->
                    IF f \in Forms[form] /\ DataVal[f] # {} THEN ParseElement(f)
                    ELSE rules[f]]
    /\ UNCHANGED <<form, value, submitted, invalid, highlight, container, untold, post>>

(* rules() of jquery.validate: an input of type number has the rule of that *)
(* name as well.                                                            *)
Rules(f) == rules[f] \cup (IF f \in NumberType THEN {"number"} ELSE {})

(* check: the first rule that is broken, required before number. *)
Broken(f, v) == {m \in Rules(f) : v \notin Passes[m]}
FirstBroken(f, v) == IF "required" \in Broken(f, v) THEN "required" ELSE "number"

--------------------------------------------------------------------------------
(* jquery.validate.unobtrusive: where a message goes.  A label is the span  *)
(* showLabel makes for a message; styled if it has the errorClass.          *)

(* Mutant: the container keeps what it had. *)
OnErrorKeeps(c, label) ==
    [class |-> "error", labels |-> Append(c.labels, [text |-> label.text, styled |-> FALSE])]

OnError(c, label) ==
    [class |-> "error", labels |-> <<[text |-> label.text, styled |-> FALSE]>>]

(* Mutant: the container is not emptied. *)
OnSuccessKeeps(c) == [c EXCEPT !.class = "valid"]

OnSuccess(c) == [class |-> "valid", labels |-> <<>>]

(* showLabel: a label that is found is given the new text, otherwise a new  *)
(* one is placed.  onError takes the errorClass from the labels it places,  *)
(* by which they would be found.                                            *)
ShowLabel(c, text) ==
    LET found == {n \in DOMAIN c.labels : c.labels[n].styled}
    IN  IF found # {}
        THEN [c EXCEPT !.labels = [n \in DOMAIN @ |->
                IF n \in found THEN [@[n] EXCEPT !.text = text] ELSE @[n]]]
        ELSE OnError(c, [text |-> text, styled |-> TRUE])

(* defaultShowErrors for one input. *)
Shown(f, v) ==
    IF Broken(f, v) # {} THEN ShowLabel(container[f], FirstBroken(f, v))
    ELSE OnSuccess(ShowLabel(container[f], ""))

--------------------------------------------------------------------------------
(* jquery.validate *)

Elements == {f \in Forms[form] : Rules(f) # {}}

(* The inputs of S are checked with the values v. *)
Check(S, v) ==
    LET bad == {f \in S : Broken(f, v[f]) # {}}
    IN  /\ submitted' = submitted \cup bad
        /\ highlight' = (highlight \ S) \cup bad
        /\ container' = [f \in Inputs |->
                            IF f \in S /\ Rules(f) # {} THEN Shown(f, v[f])
                            ELSE container[f]]
        /\ untold' = untold \ S

(* element: one input. *)
Element(f, v) ==
    /\ Check({f}, v)
    /\ invalid' = [invalid EXCEPT ![f] = IF Broken(f, v[f]) # {} THEN "yes" ELSE "no"]

Set(f, v) ==
    /\ v \in Offers[f] /\ v # value[f]
    /\ value' = [value EXCEPT ![f] = v]

(* Mutant: an input that was emptied is left alone, as on Tab. *)
OnKeyUpFilled(f, v) ==
    /\ page = "ready" /\ Set(f, v)
    /\ IF (f \in submitted \/ invalid[f] # "none") /\ v # "empty"
       THEN Element(f, value')
       ELSE UNCHANGED <<submitted, invalid, highlight, container, untold>>
    /\ UNCHANGED <<form, page, rules, post>>

(* A key: onkeyup checks inputs that were checked before. *)
OnKeyUp(f, v) ==
    /\ page = "ready" /\ Set(f, v)
    /\ IF f \in submitted \/ invalid[f] # "none"
       THEN Element(f, value')
       ELSE UNCHANGED <<submitted, invalid, highlight, container, untold>>
    /\ UNCHANGED <<form, page, rules, post>>

(* The mouse, the arrows of a number input or the browser's memory: no      *)
(* event jquery.validate listens to; on a page that is loading, nothing is. *)
Change(f, v) ==
    /\ page # "left" /\ Set(f, v)
    /\ untold' = IF page = "ready" THEN untold \cup {f} ELSE untold
    /\ UNCHANGED <<form, page, validator, post>>

(* onfocusout: an empty input that was never wrong is left alone. *)
OnFocusOut(f) ==
    /\ page = "ready"
    /\ f \in submitted \/ value[f] # "empty"
    /\ Element(f, value)
    /\ UNCHANGED <<form, page, value, rules, post>>

(* AddTrucker and SetRules: what does not bind is dropped, and the answer   *)
(* is the same.                                                             *)
PostForm(early) ==
    /\ page' = "left"
    /\ post' = [values |-> value, early |-> early,
                saved |-> \A f \in Forms[form] : value[f] \in Binds[f]]

(* Mutant: the outcome of earlier checks decides. *)
SubmitCached ==
    /\ page = "ready"
    /\ IF \A f \in Elements : invalid[f] # "yes"
       THEN PostForm(FALSE) /\ UNCHANGED <<submitted, invalid, highlight, container, untold>>
       ELSE /\ Check(Elements, value)
            /\ UNCHANGED <<page, post, invalid>>
    /\ UNCHANGED <<form, value, rules>>

(* form: every input is checked; invalid is what was wrong. *)
Submit ==
    /\ page = "ready"
    /\ Check(Elements, value)
    /\ LET bad == {f \in Elements : Broken(f, value[f]) # {}}
       IN  /\ invalid' = [f \in Inputs |-> IF f \in bad THEN "yes" ELSE "none"]
           /\ IF bad = {} THEN PostForm(FALSE) ELSE UNCHANGED <<page, post>>
    /\ UNCHANGED <<form, value, rules>>

(* Before parse has run nothing but the browser is in the way; validate     *)
(* switches its own checks off (novalidate).                                *)
SubmitEarly ==
    /\ page = "loading"
    /\ \A f \in Forms[form] : value[f] \in Native[f]
    /\ PostForm(TRUE)
    /\ UNCHANGED <<form, value, validator, untold>>

(* The redirect to Index, and one of the forms again. *)
Open ==
    /\ page = "left"
    /\ \E p \in DOMAIN Forms : form' = p /\ value' = Served(p)
    /\ page' = "loading"
    /\ rules' = ValidationInfo
    /\ submitted' = {} /\ highlight' = {} /\ untold' = {}
    /\ invalid' = [f \in Inputs |-> "none"]
    /\ container' = [f \in Inputs |-> EmptyContainer]
    /\ post' = NoPost

Next ==
    \/ Parse \/ Submit \/ SubmitEarly \/ Open
    \/ \E f \in Forms[form] :
         \/ \E v \in Offers[f] : OnKeyUp(f, v) \/ Change(f, v)
         \/ OnFocusOut(f)

Spec == Init /\ [][Next]_vars

--------------------------------------------------------------------------------
(* Properties *)

Labels == [text : Methods, styled : {FALSE}]

TypeOK ==
    /\ form \in DOMAIN Forms /\ page \in {"loading", "ready", "left"}
    /\ DOMAIN value = Forms[form] /\ \A f \in Forms[form] : value[f] \in Offers[f]
    /\ rules \in [Inputs -> SUBSET Methods]
    /\ submitted \subseteq Forms[form] /\ highlight \subseteq submitted
    /\ untold \subseteq Forms[form]
    /\ invalid \in [Inputs -> {"none", "yes", "no"}]
    /\ container \in [Inputs -> [class : {"valid", "error"}, labels : Seq(Labels)]]

(* However often a label was looked for in vain and made anew: a container *)
(* of the error class has one message, another has none, and the input is  *)
(* highlighted exactly when its container is.                              *)
OneMessage ==
    \A f \in Inputs :
        /\ Len(container[f].labels) = IF container[f].class = "error" THEN 1 ELSE 0
        /\ f \in highlight <=> container[f].class = "error"

(* An input that was wrong once shows what is wrong with the value it has  *)
(* now, unless that came without a key and the focus is still on it.       *)
ErrorIsCurrent ==
    page = "ready" =>
        \A f \in submitted \ untold :
            container[f] = IF Broken(f, value[f]) = {} THEN EmptyContainer
                           ELSE [class |-> "error", labels |->
                                   <<[text |-> FirstBroken(f, value[f]), styled |-> FALSE]>>]

(* What is posted from a page that was ready satisfies the attributes,     *)
(* whatever the order of changes, checks and errors before.                *)
PostedSatisfiesRules ==
    page = "left" /\ ~post.early =>
        \A f \in Forms[form] : \A m \in DataVal[f] : post.values[f] \in Passes[m]

(* What the controller drops without a word was posted too early, or is a  *)
(* blank text, or a fraction or a number beyond 32 bits where the model    *)
(* has an int: there the rules are weaker than the binder.                 *)
DroppedOnlyUnseen ==
    page = "left" /\ ~post.saved =>
        \/ post.early
        \/ \E f \in Forms[form] : post.values[f] \in {"blank", "fraction", "huge"}

================================================================================
