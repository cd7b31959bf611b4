----------------------------- MODULE SuiteCases ------------------------------
(***************************************************************************)
(* The run of the suites, and what they compute for a case: the JSON       *)
(* pointers and the targets of the structural suite, the Management files  *)
(* of the lifecycle suite, the blocks of the FEC suite, and the            *)
(* credentials and seals of the crypto suite.  A run sees of a case only   *)
(* what it ends in, and the cases share nothing, so that a behaviour is    *)
(* about one of them and the others rest.                                  *)
(***************************************************************************)
EXTENDS Integers, Sequences

CONSTANTS
  Items, MaxDefects,                                                   \* of ValidatorRun
  Document, Pointer, MaxDepth,                                         \* of JsonPointer
  Vector, Schema, MaxTargets, MaxItems,                                \* of SchemaTargets
  Service, NoService, Permission, Other, MaxRows,                      \* of ManagementCsv
  Width, Polynomial, MaxBlockSize, SequenceBits, Starts, Samples,      \* of FecBlock
  Password, Normalized, Secret, Channel,                               \* of CredentialDerivation
  Talker, NonceSpace, CounterSpace, MaxSessions,                       \* of MediaSealing
  Client, Relay, Epoch, MaxSealed                                      \* of DirectorySealing

ASSUME RunAssumption == Items \in Nat /\ MaxDefects \in Nat
ASSUME FilesAssumption ==
  /\ {MaxTargets, MaxItems} \subseteq Nat
  /\ NoService \notin Service /\ Other \notin Permission \cup BOOLEAN
  /\ MaxRows \in [{"services", "acl", "permissions"} -> Nat]
ASSUME FieldAssumption ==
  Width \in Nat \ {0, 1} /\ Polynomial \subseteq 0 .. Width /\ Width \in Polynomial
ASSUME BlockAssumption ==
  /\ MaxBlockSize \in Nat \ {0} /\ SequenceBits \in Nat
  /\ MaxBlockSize < 2 ^ Width /\ MaxBlockSize <= 2 ^ SequenceBits
  /\ Starts # {} /\ Starts \subseteq 0 .. 2 ^ SequenceBits - 1
  /\ Samples # {} /\ Samples \subseteq Seq(SUBSET (0 .. Width - 1)) \ {<<>>}
ASSUME CredentialAssumption ==
  /\ Normalized \in [Password -> STRING] /\ Secret \subseteq STRING /\ Channel \subseteq STRING
ASSUME SealingAssumption ==
  /\ {NonceSpace, CounterSpace, MaxSessions} \subseteq Nat \ {0} /\ CounterSpace <= NonceSpace
  /\ Relay \notin Client /\ "" \notin Epoch /\ MaxSealed \in Nat

VARIABLES
  subject,                                               \* what the behaviour is about
  suite, todo, item, found, named, exit, ran, defective, \* of ValidatorRun
  pointer, tokens, current, status,                      \* of JsonPointer
  usable, targets, cached, declared, reports, done,      \* of SchemaTargets
  phase, rows, reading,                                  \* of ManagementCsv
  blockStart, frames, received, state, output,           \* of FecBlock
  cache, derived, failed,                                \* of CredentialDerivation
  base, counter, bases, packets, refused,                \* of MediaSealing
  epoch, sequence, drawn, sealed                         \* of DirectorySealing

run == <<suite, todo, item, found, named, exit, ran, defective>>
pointers == <<pointer, tokens, current, status>>
targeting == <<usable, targets, cached, declared, reports, done>>
files == <<phase, rows, reading>>
blocks == <<blockStart, frames, received, state, output>>
credentials == <<cache, derived, failed>>
media == <<base, counter, bases, packets, refused>>
directory == <<epoch, sequence, drawn, sealed>>

Run == INSTANCE ValidatorRun WITH errors <- named
Pointers == INSTANCE JsonPointer
Targets == INSTANCE SchemaTargets WITH errors <- reports
Files == INSTANCE ManagementCsv
Blocks == INSTANCE FecBlock
Credentials == INSTANCE CredentialDerivation WITH errors <- failed
Media == INSTANCE MediaSealing WITH sealed <- packets
Directory == INSTANCE DirectorySealing

\* A document of JSON, and all of it.
ASSUME DocumentAssumption ==
  /\ MaxDepth \in Nat /\ Pointer \subseteq Seq(STRING)
  /\ \A p \in Pointers!Place : Pointers!IsValue(p.value)
  /\ Pointers!Level[MaxDepth + 1] = {}

\* The polynomial is irreducible, so that every element but zero has its inverse,
\* and the powers of two that a block uses are different.
ASSUME PolynomialAssumption ==
  /\ \A a \in Blocks!Element \ {Blocks!ZeroElement} : Blocks!GfMul(a, Blocks!GfInv(a)) = Blocks!One
  /\ \A m, n \in 0 .. MaxBlockSize - 1 :
       Blocks!GfPow(Blocks!Two, m) = Blocks!GfPow(Blocks!Two, n) => m = n

-----------------------------------------------------------------------------
\* One case each of those that rest.
Init ==
  /\ subject \in
       {"run", "pointers", "targets", "files", "blocks", "credentials", "media", "directory"}
  /\ Run!Init /\ (subject = "run" \/ suite = "all")
  /\ Pointers!Init /\ (subject = "pointers" \/ pointer = <<>>)
  /\ Targets!Init /\ (subject = "targets" \/ usable = {})
  /\ Files!Init
  /\ Blocks!Init
  /\ \/ subject = "blocks"
     \/ blockStart = (CHOOSE s \in Starts : TRUE) /\ frames = <<CHOOSE f \in Samples : TRUE>>
  /\ Credentials!Init /\ Media!Init /\ Directory!Init

Next ==
  /\ UNCHANGED subject
  /\ \/ /\ subject = "run" /\ Run!Next
        /\ UNCHANGED <<pointers, targeting, files, blocks, credentials, media, directory>>
     \/ /\ subject = "pointers" /\ Pointers!Next
        /\ UNCHANGED <<run, targeting, files, blocks, credentials, media, directory>>
     \/ /\ subject = "targets" /\ Targets!Next
        /\ UNCHANGED <<run, pointers, files, blocks, credentials, media, directory>>
     \/ /\ subject = "files" /\ Files!Next
        /\ UNCHANGED <<run, pointers, targeting, blocks, credentials, media, directory>>
     \/ /\ subject = "blocks" /\ Blocks!Next
        /\ UNCHANGED <<run, pointers, targeting, files, credentials, media, directory>>
     \/ /\ subject = "credentials" /\ Credentials!Next
        /\ UNCHANGED <<run, pointers, targeting, files, blocks, media, directory>>
     \/ /\ subject = "media" /\ Media!Next
        /\ UNCHANGED <<run, pointers, targeting, files, blocks, credentials, directory>>
     \/ /\ subject = "directory" /\ Directory!Next
        /\ UNCHANGED <<run, pointers, targeting, files, blocks, credentials, media>>

Spec ==
  Init /\ [][Next]_<<subject, run, pointers, targeting, files, blocks, credentials, media, directory>>

-----------------------------------------------------------------------------
\* The variables' types, and what caches, indexes and records contain.
TypeOK ==
  /\ subject = "run" => Run!TypeOK
  /\ subject = "pointers" => Pointers!TypeOK
  /\ subject = "blocks" => Blocks!TypeOK
  /\ Targets!TypeOK /\ Files!TypeOK /\ Credentials!TypeOK /\ Media!TypeOK /\ Directory!TypeOK

\* Success is never reported over a defect, of whatever class a raise was and
\* wherever it was handled: status 0 means that all that was asked for ran.
SuccessMeansAllMatched == Run!SuccessMeansAllMatched

\* One failing validator hides no other: a run that ends with a report ran every
\* validator asked for, and names exactly those that met a defect.
DefectsAreNamed == Run!DefectsAreNamed

\* Every value of a document has its pointer: whatever characters the names on
\* the way have, the pointer that is written for a place leads to it.
EveryPlaceIsFound == subject = "pointers" => Pointers!EveryPlaceIsFound

\* A target is reported exactly when it is wrong by itself, whatever was cached
\* or failed before it, and silence means that every schema is usable and that
\* everything its targets select was validated.
TargetsAreJudgedAlone == Targets!ReportedIfWrong /\ Targets!SilenceCoversSchemas

\* What is reported of the Management files, and what they grant if it is nothing,
\* does not depend on the order of their rows, and neither of two rows about one
\* permission wins.
RowOrderIrrelevant == Files!OrderIrrelevant /\ Files!NoRowWins

\* The services that accepted Management files refer to are enabled.
ServicesAreEnabled == Files!ServicesAreEnabled

\* A block is rendered as it was sent, byte for byte, whichever two of its frames
\* are lost, and only given up when it lost more, also where sequences wrap.
BlocksRecovered == Blocks!RecoveredExactly /\ Blocks!GivenUpOnlyBeyondTwo

\* A vector is given the key that a fresh deriver would give it, and no key
\* serves two channels or two purposes.
KeysAsDerived == Credentials!CacheIsTransparent /\ Credentials!KeysSeparate

\* No key is used twice with one nonce: not by two talkers, sessions or clients,
\* not at the end of the nonces, not after a restart, not in both directions.
NonceOnce == Media!NonceOnce /\ Directory!NonceOnce
=============================================================================
