------------------------- MODULE UnobtrusiveAdapters -------------------------
(***************************************************************************)
(* How jquery.validate.unobtrusive turns the data-val attributes of an input *)
(* into rules of jQuery Validate, and what these rules then accept.           *)
(*                                                                          *)
(* A markup is what an input says: said, the adapters it has an attribute     *)
(* data-val-<adapter> for; worded, those of them whose message is not empty;   *)
(* param, its attributes data-val-<adapter>-<param> that are not empty, by     *)
(* <<adapter, param>>; and whether it is a checkbox.  A parameter is a number, *)
(* the name of a format, or a field name.  A field name is a sequence: its     *)
(* parts between the dots; a leading "*" stands for the model prefix.          *)
(*                                                                          *)
(* A text, a value an input may have, is given by what the rules ask of it:    *)
(* its characters by their codes, how many they are, its number, the non-word  *)
(* characters in it, the formats and patterns it fits as a whole.              *)
(*                                                                          *)
(* The names differ from those of UnobtrusiveValidation, so that one module of  *)
(* proofs can be about both.                                                    *)
(***************************************************************************)
EXTENDS Naturals, Sequences

CONSTANTS Markup,      \* the markups an input may have
          Changed,     \* those a script may change them to
          Text,        \* the texts it may hold
          FieldName,   \* the name of the input
          OtherFields  \* the other inputs of the form, by name: their texts

VARIABLES
  markup,        \* the attributes of the input, which a script may change
  madeFrom,      \* the markup that the validator of the form was made from
  inputSettings, \* the rules and messages that this validator has of the input
  lastCheck      \* the text that was checked last, and the verdict

inputVars == <<markup, madeFrom, inputSettings, lastCheck>>

----------------------------------------------------------------------------
(* What a rule is set to: it is only switched on, it has arguments, or the      *)
(* attribute it should come from is not there.  jQuery Validate copies rules    *)
(* with $.extend, which drops what is undefined.                                *)
On == [defined |-> TRUE, args |-> <<>>]
With(args) == [defined |-> TRUE, args |-> args]
Undefined == [defined |-> FALSE, args |-> <<>>]

Put(f, key, v) == [k \in DOMAIN f \cup {key} |-> IF k = key THEN v ELSE f[k]]

(* The rule is set in any case, its message only when there is one. *)
SetValidationValues(o, adapter, m, rule, v) ==
  [rules |-> Put(o.rules, rule, v),
   messages |-> IF adapter \in m.worded THEN Put(o.messages, rule, adapter)
                                        ELSE o.messages]

Given(m, adapter, param) == <<adapter, param>> \in DOMAIN m.param

(* What the server renders: each adapter with the parameters it is registered    *)
(* with (the url and the method of a remote request are left out), but for         *)
(* minlength and maxlength, which addMinMax gives two and which have but one.      *)
Numbers == {<<"length", "min">>, <<"length", "max">>, <<"range", "min">>, <<"range", "max">>,
            <<"minlength", "min">>, <<"maxlength", "max">>,
            <<"password", "min">>, <<"password", "nonalphamin">>}
Parameters ==
  Numbers \cup {<<"regex", "pattern">>, <<"equalto", "other">>,
               <<"remote", "additionalfields">>, <<"password", "regex">>,
               <<"extension", "extension">>, <<"fileextensions", "extensions">>}

IsMarkup(m) ==
  /\ m.checkbox \in BOOLEAN
  /\ DOMAIN m.param \subseteq Parameters
  /\ \A p \in DOMAIN m.param : p[1] \in m.said /\ (p \in Numbers => m.param[p] \in Nat)
  /\ "equalto" \in m.said => Given(m, "equalto", "other")

IsText(t) ==
  /\ t.length \in Nat /\ t.number \in Nat /\ t.nonword \in Nat
  /\ t.chars \in Seq(Nat) /\ Len(t.chars) = t.length

ASSUME AdaptersAssumption ==
  /\ \A m \in Markup \cup Changed : IsMarkup(m)
  /\ \A t \in Text : IsText(t)

(* "*.x" in a field "A.B" is "A.x". *)
GetModelPrefix(name) == SubSeq(name, 1, Len(name) - 1)
AppendModelPrefix(name, prefix) ==
  IF Len(name) > 1 /\ Head(name) = "*" THEN prefix \o Tail(name) ELSE name

----------------------------------------------------------------------------
(* An adapter is a record of its name and of what makes its rules.  The first *)
(* four constructors are adapters.add with a function, addBool, addMinMax and  *)
(* addSingleVal; "none" is a rule name or attribute that was not passed.       *)
Custom(name) == [name |-> name, how |-> "custom", rule |-> <<name>>]
AddBool(name) == [name |-> name, how |-> "bool", rule |-> <<name>>]
AddMinMax(name, min, max, both) ==
  [name |-> name, how |-> "minmax", rule |-> <<min, max, both>>]
AddSingleVal(name, attribute, rule) ==
  [name |-> name, how |-> "single",
   rule |-> <<IF rule = "none" THEN name ELSE rule, attribute>>]

(* The methods of the jQuery Validate 1.17.0 that is shipped, without its       *)
(* additional methods, and those that are added here.                           *)
Methods ==
  {"required", "remote", "email", "url", "date", "dateISO", "number", "digits",
   "equalTo", "minlength", "maxlength", "rangelength", "min", "max", "range", "step"}
  \cup {"__dummy__", "regex", "nonalphamin"}

(* In the order of registration, which is the order they are applied in. *)
Adapters ==
  (IF "extension" \in Methods
   THEN <<AddSingleVal("accept", "mimtype", "none"),
          AddSingleVal("extension", "extension", "none")>>
   ELSE <<AddSingleVal("extension", "extension", "accept")>>)
  \o <<AddSingleVal("regex", "pattern", "none")>>
  \o <<AddBool("creditcard"), AddBool("date"), AddBool("digits"),
       AddBool("email"), AddBool("number"), AddBool("url")>>
  \o <<AddMinMax("length", "minlength", "maxlength", "rangelength"),
       AddMinMax("range", "min", "max", "range")>>
  \o <<AddMinMax("minlength", "minlength", "none", "none"),
       AddMinMax("maxlength", "minlength", "maxlength", "none")>>
  \o <<Custom("equalto"), Custom("required"), Custom("remote"),
       Custom("password"), Custom("fileextensions")>>

(* Mutant: the bounds are looked at one by one, before both together.           *)
AdaptMinFirst(o, a, m) ==
  LET Set(rule, p) == SetValidationValues(o, a.name, m, rule, With(<<m.param[<<a.name, p>>]>>))
  IN  IF Given(m, a.name, "min") THEN Set(a.rule[1], "min")
      ELSE IF Given(m, a.name, "max") THEN Set(a.rule[2], "max") ELSE o

AdaptMinMax(o, a, m) ==
  LET Bound(p) == m.param[<<a.name, p>>]
      Set(rule, args) == SetValidationValues(o, a.name, m, rule, With(args))
  IN  CASE Given(m, a.name, "min") /\ Given(m, a.name, "max") ->
             Set(a.rule[3], <<Bound("min"), Bound("max")>>)
        [] Given(m, a.name, "min") /\ ~Given(m, a.name, "max") -> Set(a.rule[1], <<Bound("min")>>)
        [] ~Given(m, a.name, "min") /\ Given(m, a.name, "max") -> Set(a.rule[2], <<Bound("max")>>)
        [] OTHER -> o

(* The element of the form that equalto and remote mean, if there is one. *)
FullOtherName(other) == AppendModelPrefix(other, GetModelPrefix(FieldName))

AdaptEqualTo(o, m) ==
  LET other == FullOtherName(m.param[<<"equalto", "other">>])
  IN  SetValidationValues(o, "equalto", m, "equalTo",
        IF other \in DOMAIN OtherFields THEN With(<<other>>) ELSE Undefined)

(* A required checkbox is left alone: it may be unchecked. *)
AdaptRequired(o, m) ==
  IF m.checkbox THEN o ELSE SetValidationValues(o, "required", m, "required", On)

(* The names of the fields that are sent with the request. *)
AdaptRemote(o, m) ==
  LET fields == IF Given(m, "remote", "additionalfields")
                THEN m.param[<<"remote", "additionalfields">>] ELSE <<FieldName>>
  IN  SetValidationValues(o, "remote", m, "remote",
        With([i \in DOMAIN fields |-> AppendModelPrefix(fields[i], GetModelPrefix(FieldName))]))

AdaptPassword(o, m) ==
  LET Sets(acc, p, rule) ==
        IF Given(m, "password", p)
        THEN SetValidationValues(acc, "password", m, rule, With(<<m.param[<<"password", p>>]>>))
        ELSE acc
  IN  Sets(Sets(Sets(o, "min", "minlength"), "nonalphamin", "nonalphamin"),
           "regex", "regex")

AdaptSingle(o, a, m) ==
  SetValidationValues(o, a.name, m, a.rule[1],
    IF Given(m, a.name, a.rule[2]) THEN With(<<m.param[<<a.name, a.rule[2]>>]>>) ELSE Undefined)

Adapt(o, a, m) ==
  CASE a.how = "bool" -> SetValidationValues(o, a.name, m, a.rule[1], On)
    [] a.how = "minmax" -> AdaptMinMax(o, a, m)
    [] a.how = "single" -> AdaptSingle(o, a, m)
    [] a.name = "equalto" -> AdaptEqualTo(o, m)
    [] a.name = "required" -> AdaptRequired(o, m)
    [] a.name = "remote" -> AdaptRemote(o, m)
    [] a.name = "password" -> AdaptPassword(o, m)
    [] a.name = "fileextensions" ->
         SetValidationValues(o, a.name, m, "extension",
           IF Given(m, a.name, "extensions") THEN With(<<m.param[<<a.name, "extensions">>]>>)
                                             ELSE Undefined)

NoOptions == [rules |-> [r \in {} |-> On], messages |-> [r \in {} |-> ""]]

(* An adapter is applied when the input has its attribute. *)
Apply(o, a, m) == IF a.name \in m.said THEN Adapt(o, a, m) ELSE o

(* What the first k adapters make of o. *)
Applied(o, m) ==
  LET after[k \in 0 .. Len(Adapters)] ==
        IF k = 0 THEN o ELSE Apply(after[k - 1], Adapters[k], m)
  IN  after

(* The rules and messages of the name are made anew, and then each adapter the  *)
(* input has an attribute for is applied, in order.                             *)
ParseOnto(o, m) ==
  [Applied(o, m)[Len(Adapters)] EXCEPT !.rules = Put(@, "__dummy__", On)]

Parsed(m) == ParseOnto(NoOptions, m)

----------------------------------------------------------------------------
(* The methods, each for a text and the arguments of its rule. *)
Optional(t) == t.length = 0

FitsPattern(args, t) == Optional(t) \/ args[1] \in t.fits

(* Without any match there is no list of matches to count. *)
NonAlphaMin(args, t) == t.nonword > 0 /\ t.nonword >= args[1]

(* A number as an attribute says it, by the codes of its digits. *)
Digits[n \in Nat] ==
  IF n < 10 THEN <<48 + n>> ELSE Append(Digits[n \div 10], 48 + (n % 10))

(* Strings are compared by their first characters that differ. *)
StringAtMost(s, t) ==
  \/ \E i \in 1 .. Len(s) :
       /\ i <= Len(t) /\ s[i] < t[i]
       /\ \A j \in 1 .. (i - 1) : s[j] = t[j]
  \/ Len(s) <= Len(t) /\ \A i \in 1 .. Len(s) : s[i] = t[i]

(* The bounds of a length or of a range are made numbers; a bound that stands    *)
(* alone for min or max is left the string that the attribute is.                *)
Holds(rule, args, t) ==
  CASE rule \in {"__dummy__", "remote"} -> TRUE
    [] rule = "required" -> t.length > 0
    [] rule = "minlength" -> Optional(t) \/ t.length >= args[1]
    [] rule = "maxlength" -> Optional(t) \/ t.length <= args[1]
    [] rule = "rangelength" -> Optional(t) \/ t.length \in args[1] .. args[2]
    [] rule = "min" -> Optional(t) \/ StringAtMost(Digits[args[1]], t.chars)
    [] rule = "max" -> Optional(t) \/ StringAtMost(t.chars, Digits[args[1]])
    [] rule = "range" -> Optional(t) \/ t.number \in args[1] .. args[2]
    [] rule = "equalTo" -> t = OtherFields[args[1]]
    [] rule = "regex" -> FitsPattern(args, t)
    [] rule = "nonalphamin" -> NonAlphaMin(args, t)
    [] OTHER -> Optional(t) \/ rule \in t.fits

(* check: the rules of the input one by one until one fails; a rule without a   *)
(* method throws.  required comes first; of the others, which comes first is    *)
(* left open.                                                                   *)
Verdicts(rules, t) ==
  LET set == {r \in DOMAIN rules : rules[r].defined}
      failing == {r \in set \cap Methods : ~Holds(r, rules[r].args, t)}
  IN  CASE "required" \in failing -> {"refused"}
        [] set \subseteq Methods /\ failing = {} -> {"ok"}
        [] set \subseteq Methods /\ failing # {} -> {"refused"}
        [] OTHER -> {"throws"} \cup (IF failing = {} THEN {} ELSE {"refused"})

----------------------------------------------------------------------------
NotChecked == [done |-> FALSE]

InputInit ==
  /\ markup \in Markup
  /\ madeFrom = markup
  /\ inputSettings = NoOptions
  /\ lastCheck = NotChecked

(* parse: the form's options are made anew of the input as it is now, and they    *)
(* are attached.  validate makes a validator of a copy of them; a form that has    *)
(* one keeps it, and what its options are by then nobody asks.                     *)
ParseMarkup ==
  /\ IF inputSettings = NoOptions
     THEN inputSettings' = Parsed(markup) /\ madeFrom' = markup
     ELSE UNCHANGED <<inputSettings, madeFrom>>
  /\ lastCheck' = NotChecked
  /\ UNCHANGED markup

(* A script of the page changes what the input says. *)
ChangeMarkup(m) ==
  /\ inputSettings # NoOptions /\ m # markup
  /\ markup' = m
  /\ lastCheck' = NotChecked
  /\ UNCHANGED <<madeFrom, inputSettings>>

(* check, by the rules that the validator has. *)
CheckText(t) ==
  /\ inputSettings # NoOptions
  /\ \E v \in Verdicts(inputSettings.rules, t) :
       lastCheck' = [done |-> TRUE, text |-> t, verdict |-> v]
  /\ UNCHANGED <<markup, madeFrom, inputSettings>>

InputNext ==
  \/ ParseMarkup
  \/ \E m \in Changed : ChangeMarkup(m)
  \/ \E t \in Text : CheckText(t)

InputSpec == InputInit /\ [][InputNext]_inputVars

----------------------------------------------------------------------------
(* What the attributes of m mean for a text t, read one by one, with no rule in  *)
(* between.                                                                      *)
AtLeast(m, adapter, n) == Given(m, adapter, "min") => n >= m.param[<<adapter, "min">>]
AtMost(m, adapter, n) == Given(m, adapter, "max") => n <= m.param[<<adapter, "max">>]
OneSided(m) == Given(m, "range", "min") # Given(m, "range", "max")
Formats == {"creditcard", "date", "digits", "email", "number", "url"}
Patterns == {<<"regex", "pattern">>, <<"password", "regex">>,
             <<"extension", "extension">>, <<"fileextensions", "extensions">>}

Allows(m, t) ==
  /\ "required" \in m.said /\ ~m.checkbox => t.length > 0
  /\ t.length > 0 =>
       /\ \A a \in {"length", "minlength", "password"} : AtLeast(m, a, t.length)
       /\ \A a \in {"length", "maxlength"} : AtMost(m, a, t.length)
       /\ ~OneSided(m) => AtLeast(m, "range", t.number) /\ AtMost(m, "range", t.number)
       /\ m.said \cap Formats \subseteq t.fits
       /\ \A p \in Patterns \cap DOMAIN m.param : m.param[p] \in t.fits

(* Two attributes want the same rule with different arguments: the one whose     *)
(* adapter was registered later has it.                                          *)
Clash(m) ==
  LET Of(places) == {m.param[p] : p \in places \cap DOMAIN m.param}
      alone == IF Given(m, "length", "min") /\ Given(m, "length", "max") THEN {}
               ELSE {<<"length", "min">>, <<"length", "max">>}
      Differ(places) == \E v, w \in Of(places) : v # w
  IN  \/ Differ({<<"minlength", "min">>, <<"password", "min">>}
                \cup (alone \cap {<<"length", "min">>}))
      \/ Differ({<<"maxlength", "max">>} \cup (alone \cap {<<"length", "max">>}))
      \/ Differ({<<"regex", "pattern">>, <<"password", "regex">>})

(* The input asks for non-word characters, of an empty text as well, or to be    *)
(* the same as another.                                                          *)
AsksMore(m, t) ==
  \/ /\ Given(m, "password", "nonalphamin")
     /\ t.nonword = 0 \/ t.nonword < m.param[<<"password", "nonalphamin">>]
  \/ /\ "equalto" \in m.said
     /\ LET other == FullOtherName(m.param[<<"equalto", "other">>])
        IN  other \in DOMAIN OtherFields /\ t # OtherFields[other]

(* The rules say of every text what the attributes they were made from say of it.  *)
(* A text that is refused is one they do not allow, or one they bound at one side   *)
(* only, by the order of strings; one that is let through is allowed, unless two     *)
(* attributes clash; and the check breaks off only for the three attributes whose    *)
(* rules have no method in the jQuery Validate that is shipped.  A message is that    *)
(* of an attribute the input had.                                                    *)
ClientAgrees ==
  /\ lastCheck.done =>
       /\ lastCheck.verdict = "refused" =>
            \/ ~Allows(madeFrom, lastCheck.text) \/ AsksMore(madeFrom, lastCheck.text)
            \/ OneSided(madeFrom)
       /\ lastCheck.verdict = "ok" /\ ~Clash(madeFrom) =>
            Allows(madeFrom, lastCheck.text) /\ ~AsksMore(madeFrom, lastCheck.text)
       /\ lastCheck.verdict = "throws" =>
            madeFrom.said \cap {"creditcard", "extension", "fileextensions"} # {}
  /\ \A r \in DOMAIN inputSettings.messages :
       inputSettings.messages[r] \in madeFrom.said \cap madeFrom.worded

=============================================================================
