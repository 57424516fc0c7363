------------------------ MODULE UnobtrusiveValidation ------------------------
(***************************************************************************)
(* Unobtrusive validation of one form of a page of the web applications:     *)
(* jquery.validate.unobtrusive parses the data-val attributes of the page    *)
(* into rules, attaches a jQuery Validate validator to the form, and shows   *)
(* what it finds (ValidationMessages, FormValidator).                        *)
(*                                                                          *)
(* Actors: the user (edits, leaves fields, submits, resets), scripts of the   *)
(* page (add, remove, hide and show fields, parse what they added, validate   *)
(* for unobtrusive Ajax), and the server that answers remote rules.           *)
(***************************************************************************)
EXTENDS FormValidator

CONSTANTS Loaded,      \* the fields of the page as it is loaded
          MaxEdits,    \* how often values are changed
          MaxChanges   \* how often scripts change the page or an answer is lost

ASSUME BoundsAssumption ==
  /\ Loaded \subseteq Field
  /\ MaxEdits \in Nat /\ MaxChanges \in Nat

VARIABLES
  options,   \* the fields that were parsed: the keys of options.rules
  bound,     \* whether onReset is bound to the form
  edits, changes

vars == <<dom, value, attached, settings, form, options, bound, edits, changes>>

----------------------------------------------------------------------------
Previous == [old : AnyData \cup {NoData}, valid : BOOLEAN]
Request == [data : AnyData \cup {NoData}, own : BOOLEAN]

FormState ==
  [errors : SUBSET Field, success : SUBSET Field, submitted : SUBSET Field,
   invalid : SUBSET Field, pending : SUBSET Field, pendingRequest : Nat,
   formSubmitted : BOOLEAN, sent : BOOLEAN,
   previous : [Field -> Previous], ajax : [Field -> Request],
   at : [Field -> Container], list : SUBSET Field, summary : {"valid", "errors"},
   verdict : [Field -> Previous],
   seen : [Field -> {"clean", "edited", "asked", "fresh", "late"}]]

TypeOK ==
  /\ dom \in [Field -> {"absent", "hidden", "visible"}]
  /\ value \in [Field -> Value]
  /\ attached \in BOOLEAN
  /\ bound \in BOOLEAN
  /\ settings \subseteq Field
  /\ options \subseteq Field
  /\ form \in FormState
  /\ edits \in 0 .. MaxEdits
  /\ changes \in 0 .. MaxChanges

NewForm ==
  [errors |-> {}, success |-> {}, submitted |-> {}, invalid |-> {},
   pending |-> {}, pendingRequest |-> 0, formSubmitted |-> FALSE, sent |-> FALSE,
   previous |-> [f \in Field |-> NoPrevious],
   ajax |-> [f \in Field |-> NoRequest],
   at |-> [f \in Field |-> CleanContainer], list |-> {}, summary |-> "valid",
   verdict |-> [f \in Field |-> NoPrevious],
   seen |-> [f \in Field |-> "clean"]]

Init ==
  /\ dom = [f \in Field |-> IF f \in Loaded THEN "visible" ELSE "absent"]
  /\ value = [f \in Field |-> Empty]
  /\ attached = FALSE /\ bound = FALSE
  /\ settings = {} /\ options = {}
  /\ form = NewForm
  /\ edits = 0 /\ changes = 0

----------------------------------------------------------------------------
(* attachValidation binds onReset and calls validate(options), which copies   *)
(* the options into a new validator or returns the one the form has.          *)
Attach(parsed) ==
  /\ bound' = TRUE
  /\ attached' = TRUE
  /\ settings' = IF attached THEN settings ELSE parsed

(* parse(selector): every field of S, the fields below the selected element,  *)
(* is parsed without attaching; then each form around or below it that has a  *)
(* field with data-val=true is attached.                                      *)
ParseFields(S) ==
  /\ options' = options \cup S
  /\ IF Present # {} THEN Attach(options \cup S)
                     ELSE UNCHANGED <<attached, settings, bound>>

(* The document is ready: parse(document). *)
OnReady ==
  /\ ~form.sent /\ ~bound /\ options = {}
  /\ ParseFields(Present)
  /\ UNCHANGED <<dom, value, form, edits, changes>>

Parse(S) ==
  /\ ~form.sent /\ S \subseteq Present
  /\ ParseFields(S)
  /\ UNCHANGED <<dom, value, form, edits, changes>>

(* parseElement(element, skipAttach). *)
ParseElement(f, skipAttach) ==
  /\ ~form.sent /\ f \in Present
  /\ options' = options \cup {f}
  /\ IF skipAttach THEN UNCHANGED <<attached, settings, bound>>
                   ELSE Attach(options \cup {f})
  /\ UNCHANGED <<dom, value, form, edits, changes>>

(* validationInfo(form).validate(), the check that unobtrusive Ajax asks for:  *)
(* $form.validate() without options makes a validator without rules when the   *)
(* form has none yet.                                                          *)
Validate ==
  /\ ~form.sent /\ (options # {} \/ bound)
  /\ attached' = TRUE
  /\ form' = ValidateForm(form)
  /\ UNCHANGED <<dom, value, settings, options, bound, edits, changes>>

----------------------------------------------------------------------------
(* A submit of the user.  Before there is a validator the browser just sends   *)
(* the form.                                                                   *)
Submit ==
  /\ ~form.sent
  /\ form' = IF attached THEN SubmitForm(form) ELSE [form EXCEPT !.sent = TRUE]
  /\ UNCHANGED <<dom, value, attached, settings, options, bound, edits, changes>>

(* A value that changes makes what is known of the fields it rides with old.   *)
Outdated(seen, f) ==
  [g \in Field |-> IF f \in Carried(g) /\ seen[g] # "clean" THEN "edited" ELSE seen[g]]

(* The user or a script changes a value. *)
Edit(f, v) ==
  /\ ~form.sent /\ edits < MaxEdits
  /\ f \in Visible /\ v # value[f]
  /\ value' = [value EXCEPT ![f] = v]
  /\ form' = [form EXCEPT !.seen = Outdated(@, f)]
  /\ edits' = edits + 1
  /\ UNCHANGED <<dom, attached, settings, options, bound, changes>>

(* onkeyup, and onfocusout of a field that is not empty: the field is checked  *)
(* again.                                                                      *)
KeyUp(f) ==
  /\ ~form.sent /\ attached
  /\ f \in Visible /\ f \in form.submitted \cup form.invalid
  /\ form' = ValidateElement(form, f)
  /\ UNCHANGED <<dom, value, attached, settings, options, bound, edits, changes>>

FocusOut(f) ==
  /\ ~form.sent /\ attached
  /\ f \in Visible /\ (f \in form.submitted \/ value[f] # Empty)
  /\ form' = ValidateElement(form, f)
  /\ UNCHANGED <<dom, value, attached, settings, options, bound, edits, changes>>

(* The user resets the form: onReset, and then the browser restores the values. *)
Reset ==
  /\ ~form.sent
  /\ form' =
       LET cleaned == IF bound THEN ResetMessages(ResetForm(form)) ELSE form
           seen == IF bound THEN [f \in Field |-> "clean"]
                   ELSE [f \in Field |-> IF form.seen[f] = "clean" THEN "clean" ELSE "edited"]
       IN  [cleaned EXCEPT !.seen = seen]
  /\ value' = [f \in Field |-> Empty]
  /\ UNCHANGED <<dom, attached, settings, options, bound, edits, changes>>

----------------------------------------------------------------------------
(* Scripts of the page: a field and its container come, go, are hidden or      *)
(* shown.  jQuery takes the data of an element away with it.                   *)
Insert(f) ==
  /\ ~form.sent /\ changes < MaxChanges
  /\ dom[f] = "absent"
  /\ dom' = [dom EXCEPT ![f] = "visible"]
  /\ form' = [form EXCEPT !.at[f] = CleanContainer, !.seen[f] = "clean"]
  /\ changes' = changes + 1
  /\ UNCHANGED <<value, attached, settings, options, bound, edits>>

Remove(f) ==
  /\ ~form.sent /\ changes < MaxChanges
  /\ f \in Present
  /\ dom' = [dom EXCEPT ![f] = "absent"]
  /\ value' = [value EXCEPT ![f] = Empty]
  /\ form' = [form EXCEPT !.previous[f] = NoPrevious,
                          !.ajax[f].own = FALSE,
                          !.seen = Outdated(@, f)]
  /\ changes' = changes + 1
  /\ UNCHANGED <<attached, settings, options, bound, edits>>

HideOrShow(f) ==
  /\ ~form.sent /\ changes < MaxChanges
  /\ f \in Present
  /\ dom' = [dom EXCEPT ![f] = IF @ = "visible" THEN "hidden" ELSE "visible"]
  /\ changes' = changes + 1
  /\ UNCHANGED <<value, form, attached, settings, options, bound, edits>>

----------------------------------------------------------------------------
(* The server answers the request that is out for f. *)
Answer(f, valid) ==
  /\ ~form.sent /\ form.ajax[f].data # NoData
  /\ \/ /\ valid
        /\ form' = AnswerValid(form, f)
     \/ /\ ~valid /\ form.errors \cup {f} \subseteq Present
        /\ form' = AnswerInvalid(form, f)
     \/ /\ ~valid /\ ~(form.errors \cup {f} \subseteq Present)
        /\ form' \in AnswerThrows(form, f)
  /\ UNCHANGED <<dom, value, attached, settings, options, bound, edits, changes>>

(* No answer comes: the request fails, or another form of the page aborts it   *)
(* by asking about a field of the same name.  There is no callback for that.   *)
LoseAnswer(f) ==
  /\ ~form.sent /\ changes < MaxChanges
  /\ form.ajax[f].data # NoData
  /\ form' = [form EXCEPT !.ajax[f] = NoRequest]
  /\ changes' = changes + 1
  /\ UNCHANGED <<dom, value, attached, settings, options, bound, edits>>

(* The browser has left the page. *)
Gone == form.sent /\ UNCHANGED vars

Next ==
  \/ OnReady \/ Validate \/ Submit \/ Reset \/ Gone
  \/ \E S \in SUBSET Field : Parse(S)
  \/ \E f \in Field :
       \/ \E skipAttach \in BOOLEAN : ParseElement(f, skipAttach)
       \/ \E v \in Value : Edit(f, v)
       \/ KeyUp(f) \/ FocusOut(f)
       \/ Insert(f) \/ Remove(f) \/ HideOrShow(f)
       \/ \E valid \in BOOLEAN : Answer(f, valid)
       \/ LoseAnswer(f)

Spec == Init /\ [][Next]_vars

(* The server answers what it is asked; users and scripts owe nothing. *)
Fairness == \A f \in Field : WF_vars(\E valid \in BOOLEAN : Answer(f, valid))

FairSpec == Spec /\ Fairness

----------------------------------------------------------------------------
(* The counter of pending requests, of which the code says that "sometimes     *)
(* synchronization fails", is the number of names with a request: no sequence  *)
(* of answers, aborts, resets and removals of fields brings them apart, and a  *)
(* form is held back exactly while a name is pending.                          *)
InSync == form.pendingRequest = Cardinality(form.pending)

(* A form is sent only with values that pass: for each visible field the        *)
(* validator has rules for, the local rules accept the value, and the last      *)
(* word of the server about the field is that exactly the data in the form is   *)
(* valid.                                                                       *)
SubmittedIsValid ==
  form.sent =>
    \A f \in settings \cap Visible :
      /\ PassesLocal(f)
      /\ AsksServer(f) => form.verdict[f] = [old |-> Data(f), valid |-> TRUE]

(* The value of a field passes, as far as the server has been heard. *)
Passes(s, f) ==
  PassesLocal(f) /\ (AsksServer(f) => s.verdict[f].valid)

(* What a container says is true.  A field that was checked as it stands, with  *)
(* nothing out about it, is marked as an error just when its value does not     *)
(* pass; one that was not checked since it came or was reset is not marked.     *)
(* What arrives late may say otherwise and is left out: "late".                 *)
MessagesTruthful ==
  \A f \in Visible :
    /\ form.seen[f] = "clean" => form.at[f].class = "valid"
    /\ form.seen[f] = "fresh" /\ f \in settings /\ (AsksServer(f) => f \notin form.pending) =>
         /\ form.at[f].class = IF Passes(form, f) THEN "valid" ELSE "error"
         /\ f \in Replace => form.at[f].text = ~Passes(form, f)

(* A submit that is refused explains itself: the summary is shown and lists      *)
(* the fields that are marked among those that were checked, and there is one.   *)
RefusalExplained ==
  [][ Submit /\ ~form'.sent /\ form'.errors # {} =>
        /\ form'.summary = "errors"
        /\ form'.list = {f \in Elements : form'.at[f].class = "error" /\ form'.seen[f] = "fresh"}
        /\ form'.list # {} ]_vars

(* A submit that is held back is not held for ever: the form is sent, or a       *)
(* field is marked, or the submit is given up; unless an answer was lost or the  *)
(* page took away a field that had an error.                                     *)
Stuck == \E f \in form.pending : form.ajax[f].data = NoData
Marked == \E f \in Present : form.at[f].class = "error"

SubmitResolved ==
  form.formSubmitted /\ form.pendingRequest > 0 ~>
    form.sent \/ Marked \/ ~form.formSubmitted \/ Stuck

----------------------------------------------------------------------------
(* The inductive invariant that shows the safety properties.  A request that is  *)
(* out belongs to a name that is pending, and is the one its element remembers,   *)
(* unless the element has forgotten; what an element remembers of a name that is  *)
(* not pending is what the server said last.                                     *)
RequestInv(s) ==
  \A f \in Field :
    /\ s.ajax[f].data # NoData => f \in s.pending
    /\ s.ajax[f].data # NoData /\ s.ajax[f].own => s.previous[f].old = s.ajax[f].data
    /\ s.ajax[f].data # NoData /\ ~s.ajax[f].own => s.previous[f].old = NoData
    /\ f \notin s.pending /\ s.previous[f].old # NoData => s.verdict[f] = s.previous[f]

CountInv(s) == s.pendingRequest = Cardinality(s.pending)

ValidIfSent(s) ==
  s.sent =>
    \A f \in Elements :
      /\ PassesLocal(f)
      /\ AsksServer(f) => s.verdict[f] = [old |-> Data(f), valid |-> TRUE]

IInv ==
  /\ TypeOK
  /\ RequestInv(form) /\ CountInv(form) /\ ValidIfSent(form)
  /\ ~attached => settings = {}

----------------------------------------------------------------------------
(* The inductive invariant of MessagesTruthful: what the server is asked about    *)
(* is the data of a field with a rule and a value that passed the others, and     *)
(* the lists of the last check, which a late answer shows again, agree with what  *)
(* has been heard of each field in the page.                                     *)
AskedInv(s) ==
  \A f \in Field :
    /\ s.ajax[f].data # NoData =>
         /\ f \in settings \cap Remote
         /\ s.ajax[f].data[f] # Empty /\ s.ajax[f].data[f] \in Accepted[f]
    /\ s.seen[f] = "fresh" => f \in settings

Heard(s, f) == s.seen[f] = "fresh" /\ (AsksServer(f) => f \notin s.pending)

TruthOf(s, f) ==
  /\ s.seen[f] = "clean" => s.at[f].class = "valid"
  /\ Heard(s, f) =>
       /\ s.at[f].class = IF Passes(s, f) THEN "valid" ELSE "error"
       /\ f \in Replace => s.at[f].text = ~Passes(s, f)
       /\ f \in s.errors => ~Passes(s, f)
       /\ f \in s.success => Passes(s, f)

LabelsInv(s) == \A f \in Present : TruthOf(s, f)

TruthInv == IInv /\ AskedInv(form) /\ LabelsInv(form)

=============================================================================
