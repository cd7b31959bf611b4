----------------------- MODULE CredentialDerivation ------------------------
(***************************************************************************)
(* CredentialDeriver: the suites derive the keys of their vectors through  *)
(* one object, which keeps the results of the expensive derivation for     *)
(* whatever vector comes next, in whatever order.                          *)
(***************************************************************************)
EXTENDS ChannelKeys, FiniteSets

CONSTANTS
  Password,    \* passphrases as they are written in vectors
  Normalized,  \* their NFC form, which several of them may share
  Secret,      \* the raw secrets of credentials secret:...
  Channel      \* channel identifiers

Kind == {"argon2id-v1", "raw-secret-v1"}
PasswordVector == [kind : Kind, credential : Password \cup Secret, channel : Channel]

VARIABLES
  cache,    \* _argon2_cache: [password, salt, key] of the derivations so far
  derived,  \* the vectors and the password keys they were given
  errors    \* the vectors that were refused

vars == <<cache, derived, errors>>

Init == cache = {} /\ derived = {} /\ errors = {}

-----------------------------------------------------------------------------
\* Mutant of CacheHits: the salt is not part of cache_key.
CacheHitsByPassword(password, salt) == {entry \in cache : entry.password = password}

CacheHits(password, salt) ==
  {entry \in cache : entry.password = password /\ entry.salt = salt}

\* A passphrase is normalized, and derived unless that was done before.
DeriveArgon2id(v) ==
  LET password == Normalized[v.credential]
      salt     == ChannelSalt(v.channel)
      hits     == CacheHits(password, salt)
      fresh    == [password |-> password, salt |-> salt, key |-> Argon2id(password, salt)]
      entry    == IF hits = {} THEN fresh ELSE CHOOSE e \in hits : TRUE
  IN
  /\ v.kind = "argon2id-v1" /\ v.credential \in Password
  /\ cache' = cache \cup {entry}
  /\ derived' = derived \cup {[vector |-> v, key |-> entry.key]}
  /\ UNCHANGED errors

DeriveRawSecret(v) ==
  /\ v.kind = "raw-secret-v1" /\ v.credential \in Secret
  /\ derived' = derived \cup {[vector |-> v, key |-> RawSecret(v.credential, ChannelSalt(v.channel))]}
  /\ UNCHANGED <<cache, errors>>

\* A secret without its prefix or a passphrase that is none: only this vector fails.
Refuse(v) ==
  /\ v.credential \notin (IF v.kind = "argon2id-v1" THEN Password ELSE Secret)
  /\ errors' = errors \cup {v}
  /\ UNCHANGED <<cache, derived>>

Next == \E v \in PasswordVector : DeriveArgon2id(v) \/ DeriveRawSecret(v) \/ Refuse(v)

Spec == Init /\ [][Next]_vars

-----------------------------------------------------------------------------
\* The variables' types; every entry of the cache is a true derivation, and each
\* passphrase that was derived has one.
TypeOK ==
  /\ errors \subseteq PasswordVector /\ \A d \in derived : d.vector \in PasswordVector \ errors
  /\ \A e \in cache : e.key = Argon2id(e.password, e.salt)
  /\ \A d \in derived : d.vector.kind = "argon2id-v1" =>
       \E e \in cache : /\ e.password = Normalized[d.vector.credential]
                        /\ e.salt = ChannelSalt(d.vector.channel)

\* What a vector is given does not depend on the vectors before it: it is what
\* a deriver that has just been made would give.
CacheIsTransparent ==
  \A d \in derived :
    LET v == d.vector salt == ChannelSalt(v.channel) IN
    d.key = IF v.kind = "argon2id-v1" THEN Argon2id(Normalized[v.credential], salt)
            ELSE RawSecret(v.credential, salt)

\* The keys that follow from a password key, each for its purpose.
PurposeKeys(k) ==
  {MediaKey(k), ControlKey(k)} \cup
  {EpochKey(DirectionalKey(DirectoryChannelKey(k), type), "epoch") : type \in {"request", "participants"}}

\* Two channels never share a key, not for the same passphrase either, and no
\* key serves two purposes.
KeysSeparate ==
  \A d, e \in derived :
    /\ d.vector.channel # e.vector.channel => PurposeKeys(d.key) \cap PurposeKeys(e.key) = {}
    /\ Cardinality(PurposeKeys(d.key)) = 4
=============================================================================
