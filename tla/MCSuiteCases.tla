---------------------------- MODULE MCSuiteCases -----------------------------
\* Every suite with all of its validators, two items in each, and up to two
\* defects anywhere in the run; a document whose names are all texts of at most
\* two special characters, and every text of at most five of them as a pointer;
\* a vector, two schemas and two targets; a service, an ACL and three permission
\* rows; the field and the sequences of the code, with two frames that show
\* padding, carries and zero bytes; two passphrases with one NFC form; bases that
\* lie next to each other and at both ends of the nonces; a restart and epochs
\* that meet.
EXTENDS SuiteCases

Special == {"/", "~", "0", "1"}
Names == UNION {[1 .. n -> Special] : n \in 0 .. 2}
Leaf(label) == [scalar |-> label]

\* Most names lead to a value of their own, two lead further.
Tree ==
  [object |-> [n \in Names |->
     IF n = <<"0">> THEN [array |-> <<Leaf(<<"a">>)>>]
     ELSE IF n = <<"1">> THEN [object |-> [m \in Names |-> Leaf(<<"c">> \o m)]]
     ELSE Leaf(n)]]
Texts == UNION {[1 .. n -> Special] : n \in 0 .. 5}

\* A skipped row may stand between two others.
ThreePermissions ==
  [file \in {"services", "acl", "permissions"} |-> IF file = "permissions" THEN 3 ELSE 1]

FieldPolynomial == {0, 2, 3, 4, 8}
TwoStarts == {42, 65533}
TwoFrames == {<<{0, 7}, {1, 6}>>, <<{2, 3, 4, 5, 6, 7}>>}

ThreePasswords == {"composed", "decomposed", "other"}
NormalForms == [p \in ThreePasswords |-> IF p = "decomposed" THEN "composed" ELSE p]

\* For the Management files by themselves the cases of the other suites are as
\* small as they can be.
SmallTree == Leaf(<<"a">>)
NoText == {<<>>}
SmallPolynomial == {0, 1, 2}
OneFrame == {<<{0}>>}
OnePassword == {"password"}
OneNormalForm == [p \in OnePassword |-> p]
=============================================================================
