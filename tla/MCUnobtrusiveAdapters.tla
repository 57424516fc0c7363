------------------------ MODULE MCUnobtrusiveAdapters ------------------------
EXTENDS UnobtrusiveAdapters

(* What validation attributes of a model are rendered as. *)
Says(adapter, params) == [adapter |-> adapter, params |-> params]
None == [p \in {} |-> 0]
One(p, v) == [q \in {p} |-> v]
Two(p, v, q, w) == [r \in {p, q} |-> IF r = p THEN v ELSE w]

Statements ==
  <<Says("required", None),
    Says("length", One("max", 2)), Says("length", Two("min", 2, "max", 3)),
    Says("length", One("min", 1)), Says("minlength", One("min", 2)),
    Says("maxlength", One("max", 1)), Says("range", Two("min", 0, "max", 1)),
    Says("range", One("min", 5)), Says("range", One("max", 5)),
    Says("regex", One("pattern", "p")), Says("regex", One("pattern", "q")),
    Says("number", None), Says("creditcard", None),
    Says("password", Two("min", 3, "nonalphamin", 1)), Says("password", One("regex", "p")),
    Says("equalto", One("other", <<"*", "Confirm">>)),
    Says("equalto", One("other", <<"Missing">>)),
    Says("remote", One("additionalfields", << <<"*", "Confirm">>, <<"Id">> >>)),
    Says("remote", None),
    Says("fileextensions", One("extensions", "p"))>>

(* An input says up to three of them, each adapter at most once. *)
MarkupOf(S, checkbox, worded) ==
  LET said == {Statements[i].adapter : i \in S}
      keys == UNION {{<<Statements[i].adapter, p>> : p \in DOMAIN Statements[i].params} : i \in S}
      of(key) == CHOOSE i \in S : Statements[i].adapter = key[1]
  IN  [said |-> said, checkbox |-> checkbox,
       worded |-> IF worded THEN said ELSE said \ {"password", "minlength"},
       param |-> [key \in keys |-> Statements[of(key)].params[key[2]]]]

Index == 1 .. Len(Statements)
Said ==
  {S \in {{i, j, k} : i \in Index, j \in Index, k \in Index} :
     \A i \in S, j \in S : i # j => Statements[i].adapter # Statements[j].adapter}

MCMarkup == {MarkupOf(S, c, w) : S \in Said, c \in BOOLEAN, w \in BOOLEAN}
MCChanged ==
  {MarkupOf({1, 2, 10}, FALSE, TRUE), MarkupOf({8}, FALSE, FALSE), MarkupOf({}, TRUE, TRUE)}

(* "", "0", "2", "10", "a!", "ab", "a-c", "abc"; what is no number has one that no *)
(* range of these allows.                                                         *)
T(chars, number, nonword, fits) ==
  [chars |-> chars, length |-> Len(chars), number |-> number, nonword |-> nonword,
   fits |-> fits]
MCText ==
  {T(<<>>, 0, 0, {}), T(<<48>>, 0, 0, {"number", "p"}), T(<<50>>, 2, 0, {"number"}),
   T(<<49, 48>>, 10, 0, {"number", "q"}), T(<<97, 33>>, 99, 1, {"p", "q"}),
   T(<<97, 98>>, 99, 0, {"p"}), T(<<97, 45, 99>>, 99, 1, {"q"}),
   T(<<97, 98, 99>>, 99, 0, {"p", "creditcard"})}

MCFieldName == <<"Account", "Password">>
MCOtherFields ==
  [n \in {<<"Account", "Confirm">>, <<"Id">>} |->
     IF n = <<"Id">> THEN T(<<48>>, 0, 0, {"number", "p"}) ELSE T(<<97, 33>>, 99, 1, {"p", "q"})]
=============================================================================
