---------------------------- MODULE ValidatorRun ----------------------------
(***************************************************************************)
(* One run of validate_vectors.py: the validators of the selected suites   *)
(* one after the other, and the items (documents, cases, targets) of each. *)
(*                                                                         *)
(* An item matches, does not match, or makes the validator raise.  What a  *)
(* raise ends is decided by the innermost handler that knows its class:    *)
(* the item, the validator, or, when there is none, the whole run.         *)
(***************************************************************************)
EXTENDS Integers, Sequences, SequencesExt

CONSTANTS
  Items,       \* items of each validator's fixture
  MaxDefects   \* bound: items that do not match or raise

\* The validators of each suite, in order.
Suite == {"structural", "packet", "crypto", "fec", "lifecycle"}

Validators ==
  [structural |-> <<"metadata", "schemas", "openapi", "targets">>,
   packet     |-> <<"packet envelope">>,
   crypto     |-> <<"password KDF", "AES-GCM v2", "Control Authentication v1",
                    "Directory UDP v3", "Identity Admission v1",
                    "Managed Service Admission v1">>,
   fec        |-> <<"FEC fixed-size v1", "FEC v2">>,
   lifecycle  |-> <<"PTT timeout", "Membership lease", "Media security mode registry",
                    "Admission expiry", "Management SSE resume", "Directory lifecycle",
                    "Private Control Link", "Media replay", "Floor Interrupt">>]

Validator == UNION {ToSet(Validators[s]) : s \in Suite}
SuiteOf(v) == CHOOSE s \in Suite : v \in ToSet(Validators[s])

\* --suite: one of them, or all in main's order.
Plan(arg) ==
  IF arg = "all"
  THEN Validators.structural \o Validators.packet \o Validators.crypto
       \o Validators.fec \o Validators.lifecycle
  ELSE Validators[arg]

\* What a validator's code can raise on a repository file: a malformed value, a
\* file that is not UTF-8, a missing member, a value of another type, a bad schema.
Raises ==
  [s \in Suite |->
     CASE s = "structural" -> {"VectorValidationError", "UnicodeDecodeError", "SchemaError",
                               "KeyError"}
       [] s = "packet"     -> {"VectorValidationError", "UnicodeDecodeError", "TypeError"}
       [] s = "crypto"     -> {"VectorValidationError", "UnicodeDecodeError", "KeyError"}
       [] s = "fec"        -> {"VectorValidationError", "UnicodeDecodeError"}
       [] s = "lifecycle"  -> {"VectorValidationError", "UnicodeDecodeError", "KeyError",
                               "TypeError", "AttributeError"}]

\* The classes an exception belongs to, as far as a handler names them.
ClassesOf(e) ==
  {e} \cup (IF e \in {"VectorValidationError", "UnicodeDecodeError"} THEN {"ValueError"} ELSE {})

\* The handlers of an item's loop and those around a validator.  The files that
\* metadata and openapi refuse by a class of their own (JSONDecodeError, YAMLError
\* and the like) are VectorValidationError and SchemaError here.
ItemHandlers ==
  [v \in Validator |->
     CASE SuiteOf(v) = "structural" -> {"VectorValidationError", "SchemaError"}
       [] v \in {"packet envelope", "password KDF"} -> {"VectorValidationError"}
       [] OTHER -> {}]

ValidatorHandlers ==
  [s \in Suite |->
     CASE s \in {"crypto", "fec"} -> {"VectorValidationError", "ValueError"}
       [] s = "lifecycle"         -> {"VectorValidationError", "ValueError", "KeyError", "TypeError"}
       [] OTHER                   -> {}]

Handles(handlers, e) == handlers \cap ClassesOf(e) # {}

VARIABLES
  suite,     \* the --suite argument
  todo,      \* the validators still to run, the running one first
  item,      \* its items that were checked
  found,     \* whether its error list holds an error
  errors,    \* the validators main's error list names
  exit,      \* "running", a status, or "traceback" (which exits non-zero)
  ran,       \* history: validators that ran to their end or raised
  defective  \* history: items that did not match or raised, with their validator

vars == <<suite, todo, item, found, errors, exit, ran, defective>>

Init ==
  /\ suite \in Suite \cup {"all"}
  /\ todo = Plan(suite)
  /\ item = 0 /\ found = FALSE
  /\ errors = {} /\ exit = "running"
  /\ ran = {} /\ defective = {}

Running == exit = "running" /\ todo # <<>>
Defect == defective' = defective \cup {<<Head(todo), item>>}

Matches ==
  /\ Running /\ item < Items
  /\ item' = item + 1
  /\ UNCHANGED <<suite, todo, found, errors, exit, ran, defective>>

\* A mismatch is appended to the validator's own list, a raise the loop handles
\* is too, and the loop goes on.
Mismatches ==
  /\ Running /\ item < Items /\ Cardinality(defective) < MaxDefects
  /\ Defect
  /\ item' = item + 1 /\ found' = TRUE
  /\ UNCHANGED <<suite, todo, errors, exit, ran>>

RaisesInLoop(e) ==
  /\ Running /\ item < Items /\ Cardinality(defective) < MaxDefects
  /\ Handles(ItemHandlers[Head(todo)], e)
  /\ Defect
  /\ item' = item + 1 /\ found' = TRUE
  /\ UNCHANGED <<suite, todo, errors, exit, ran>>

\* The next validator starts with an empty list of its own.
Advance(named) ==
  /\ errors' = IF named THEN errors \cup {Head(todo)} ELSE errors
  /\ ran' = ran \cup {Head(todo)}
  /\ todo' = Tail(todo)
  /\ item' = 0 /\ found' = FALSE

\* A validator returns its list, and main's list is extended by it.
Returns ==
  /\ Running /\ item = Items
  /\ Advance(found)
  /\ UNCHANGED <<suite, exit, defective>>

\* Mutant of Abandons: the handler is around the loop over the validators.
AbandonsSuite(e) ==
  /\ Running /\ item < Items /\ Cardinality(defective) < MaxDefects
  /\ ~Handles(ItemHandlers[Head(todo)], e)
  /\ Handles(ValidatorHandlers[SuiteOf(Head(todo))], e)
  /\ Defect
  /\ errors' = errors \cup {Head(todo)}
  /\ ran' = ran \cup {Head(todo)}
  /\ todo' = SelectSeq(todo, LAMBDA v : SuiteOf(v) # SuiteOf(Head(todo)))
  /\ item' = 0 /\ found' = FALSE
  /\ UNCHANGED <<suite, exit>>

\* A raise ends the validator: its own list is lost, the raise is reported.
Abandons(e) ==
  /\ Running /\ item < Items /\ Cardinality(defective) < MaxDefects
  /\ ~Handles(ItemHandlers[Head(todo)], e)
  /\ Handles(ValidatorHandlers[SuiteOf(Head(todo))], e)
  /\ Defect
  /\ Advance(TRUE)
  /\ UNCHANGED <<suite, exit>>

\* Mutant of Escapes: a handler for everything that does not report.
Swallows(e) ==
  /\ Running /\ item < Items /\ Cardinality(defective) < MaxDefects
  /\ ~Handles(ItemHandlers[Head(todo)] \cup ValidatorHandlers[SuiteOf(Head(todo))], e)
  /\ Defect
  /\ Advance(FALSE)
  /\ UNCHANGED <<suite, exit>>

\* A raise nobody handles ends the run before main prints anything.
Escapes(e) ==
  /\ Running /\ item < Items /\ Cardinality(defective) < MaxDefects
  /\ ~Handles(ItemHandlers[Head(todo)] \cup ValidatorHandlers[SuiteOf(Head(todo))], e)
  /\ Defect
  /\ exit' = "traceback"
  /\ UNCHANGED <<suite, todo, item, found, errors, ran>>

Report ==
  /\ exit = "running" /\ todo = <<>>
  /\ exit' = IF errors = {} THEN "0" ELSE "1"
  /\ UNCHANGED <<suite, todo, item, found, errors, ran, defective>>

Next ==
  \/ Matches \/ Mismatches \/ Returns \/ Report
  \/ /\ Running
     /\ \E e \in Raises[SuiteOf(Head(todo))] : RaisesInLoop(e) \/ Abandons(e) \/ Escapes(e)

Spec == Init /\ [][Next]_vars
-----------------------------------------------------------------------------
\* Variables keep their types, and no validator has more items than its fixture.
TypeOK ==
  /\ suite \in Suite \cup {"all"}
  /\ todo \in Seq(Validator)
  /\ item \in 0..Items /\ found \in BOOLEAN
  /\ errors \subseteq Validator /\ ran \subseteq Validator
  /\ defective \subseteq Validator \X (0..Items)
  /\ exit \in {"running", "0", "1", "traceback"}

\* Success is never reported over a defect, whatever class the raise was of and
\* wherever it was handled: status 0 means that all that was asked for ran, item
\* by item, and matched.
SuccessMeansAllMatched ==
  exit = "0" => defective = {} /\ ran = ToSet(Plan(suite))

\* One failing validator hides no other: a run that ends with a report ran every
\* validator asked for, and names exactly those that met a defect.
DefectsAreNamed ==
  exit \in {"0", "1"} =>
    /\ ran = ToSet(Plan(suite))
    /\ errors = {d[1] : d \in defective}
=============================================================================
