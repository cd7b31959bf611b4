---------------------------- MODULE JsonPointer ----------------------------
(***************************************************************************)
(* resolve_json_pointer: a pointer such as "/a/0/b~1c" leads through the   *)
(* objects and arrays of a JSON document.  A name of an object may contain *)
(* the two characters that pointers use themselves, "/" and "~"; they are  *)
(* written "~1" and "~0".  A text is the sequence of its characters.       *)
(***************************************************************************)
EXTENDS Integers, SequencesExt

CONSTANTS
  Document,  \* [object |-> ...], [array |-> ...] or [scalar |-> ...]
  Pointer,   \* the texts that are resolved
  MaxDepth   \* no value of the document lies deeper

Digits == <<"0", "1", "2", "3", "4", "5", "6", "7", "8", "9">>
Digit == [c \in Range(Digits) |-> CHOOSE d \in 0 .. 9 : Digits[d + 1] = c]

VARIABLES
  pointer,  \* the text
  tokens,   \* the tokens that are left
  current,  \* the value that was reached
  status    \* "resolving", "found", or why there is no value

vars == <<pointer, tokens, current, status>>

-----------------------------------------------------------------------------
\* text.replace("~" + digit, char): pairs are found from the left and do not overlap.
Replace(text, digit, char) ==
  LET n == Len(text)
      from[i \in 1 .. n + 1] ==
        IF i > n THEN <<>>
        ELSE IF text[i] = "~" /\ i < n /\ text[i + 1] = digit
             THEN <<char>> \o from[i + 2]
             ELSE <<text[i]>> \o from[i + 1]
  IN from[1]

\* Mutant of Unescape: "~0" first, which makes new pairs.
UnescapeTildeFirst(token) == Replace(Replace(token, "0", "~"), "1", "/")

Unescape(token) == Replace(Replace(token, "1", "/"), "0", "~")

\* text.split("/")
Split(text) ==
  FoldLeft(LAMBDA done, c : IF c = "/" THEN Append(done, <<>>)
                            ELSE [done EXCEPT ![Len(done)] = Append(@, c)],
           <<<<>>>>, text)

IsDecimal(token) == token # <<>> /\ \A i \in DOMAIN token : token[i] \in DOMAIN Digit

Number(token) == FoldLeft(LAMBDA n, c : 10 * n + Digit[c], 0, token)

-----------------------------------------------------------------------------
\* The empty pointer is the document; any other begins with "/".
Init ==
  /\ pointer \in Pointer /\ current = Document
  /\ tokens = IF pointer # <<>> /\ Head(pointer) = "/" THEN Split(Tail(pointer)) ELSE <<>>
  /\ status = IF pointer = <<>> THEN "found"
              ELSE IF Head(pointer) = "/" THEN "resolving" ELSE "not a pointer"

\* One turn of the loop: what a token leads to, or why it leads nowhere.
Go(value) ==
  /\ current' = value /\ tokens' = Tail(tokens)
  /\ status' = IF Len(tokens) = 1 THEN "found" ELSE status

Fail(reason) == status' = reason /\ UNCHANGED <<current, tokens>>

InObject(token) ==
  /\ "object" \in DOMAIN current
  /\ IF token \in DOMAIN current.object THEN Go(current.object[token]) ELSE Fail("no such name")

InArray(token) ==
  /\ "array" \in DOMAIN current
  /\ IF ~ IsDecimal(token) THEN Fail("not an index")
     ELSE IF Number(token) >= Len(current.array) THEN Fail("out of range")
     ELSE Go(current.array[Number(token) + 1])

InScalar(token) == "scalar" \in DOMAIN current /\ Fail("traverses a scalar")

Next ==
  /\ status = "resolving"
  /\ LET token == Unescape(Head(tokens)) IN InObject(token) \/ InArray(token) \/ InScalar(token)
  /\ UNCHANGED pointer

Spec == Init /\ [][Next]_vars

-----------------------------------------------------------------------------
\* RFC 6901 read the other way round: the places of a document, with the one
\* pointer that is written for each.
Escape(name) ==
  FoldLeft(LAMBDA text, c : text \o (IF c = "~" THEN <<"~", "0">>
                                     ELSE IF c = "/" THEN <<"~", "1">> ELSE <<c>>), <<"/">>, name)

Decimal ==
  LET text[n \in Nat] == IF n < 10 THEN <<Digits[n + 1]>>
                         ELSE Append(text[n \div 10], Digits[(n % 10) + 1])
  IN text

Below(place) ==
  LET v == place.value IN
  IF "object" \in DOMAIN v
  THEN {[pointer |-> place.pointer \o Escape(n), value |-> v.object[n]] : n \in DOMAIN v.object}
  ELSE IF "array" \in DOMAIN v
  THEN {[pointer |-> place.pointer \o <<"/">> \o Decimal[i - 1], value |-> v.array[i]]
          : i \in DOMAIN v.array}
  ELSE {}

Level ==
  LET level[n \in Nat] == IF n = 0 THEN {[pointer |-> <<>>, value |-> Document]}
                          ELSE UNION {Below(p) : p \in level[n - 1]}
  IN level

Place == UNION {Level[n] : n \in 0 .. MaxDepth}

\* An object, whose names are texts, an array, or neither.
IsValue(v) ==
  \/ DOMAIN v = {"object"} /\ DOMAIN v.object \subseteq Seq(STRING)
  \/ DOMAIN v = {"array"} /\ v.array \in Seq(Range(v.array))
  \/ DOMAIN v = {"scalar"}

\* What was reached is a value of the document, and nothing is left when it is found.
TypeOK ==
  /\ \E p \in Place : current = p.value
  /\ status = "found" <=> tokens = <<>> /\ status # "not a pointer"

\* Every value has its pointer: whatever characters the names on the way have,
\* the pointer that is written for a place leads to it and nowhere else.
EveryPlaceIsFound ==
  \A p \in Place : p.pointer = pointer /\ status # "resolving" => status = "found" /\ current = p.value

=============================================================================
