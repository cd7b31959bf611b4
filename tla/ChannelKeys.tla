---------------------------- MODULE ChannelKeys ----------------------------
(***************************************************************************)
(* The keys that are derived from the credential of a channel.  A key is   *)
(* the sequence of the inputs it was derived from, so that two keys are    *)
(* equal exactly when their derivations are: the hash functions are taken  *)
(* to have no collisions.                                                  *)
(***************************************************************************)
EXTENDS Sequences

NoSalt == ""

\* _hkdf_sha256: the parent key, the salt and the info enter the result.
Hkdf(key, salt, info) == key \o <<salt, info>>

\* _channel_salt: a digest of the channel.
ChannelSalt(channel) == channel

Argon2id(password, salt) == <<"argon2id", password, salt>>
RawSecret(secret, salt) == Hkdf(<<"secret", secret>>, salt, "incomudon-raw-secret-v1")

MediaKey(passwordKey) == Hkdf(passwordKey, NoSalt, "incomudon-session-aesgcm-v2")
ControlKey(passwordKey) == Hkdf(passwordKey, NoSalt, "incomudon-control-auth-v1")
DirectoryChannelKey(passwordKey) == Hkdf(passwordKey, NoSalt, "incomudon-directory-channel-v3")

ClientTypes == {"request", "register", "heartbeat"}
RelayTypes == {"snapshot", "participants", "error"}

\* The key of a direction, which follows from the type of the datagram.
DirectionalKey(directoryKey, type) ==
  Hkdf(directoryKey, NoSalt,
       IF type \in ClientTypes THEN "incomudon-directory-channel-v3 client-to-relay"
       ELSE "incomudon-directory-channel-v3 relay-to-client")

\* Mutant of EpochKey: the epoch does not enter the key.
EpochKeyForever(directionalKey, epoch) ==
  Hkdf(directionalKey, NoSalt, "incomudon-directory-envelope-v3")

EpochKey(directionalKey, epoch) == Hkdf(directionalKey, epoch, "incomudon-directory-envelope-v3")
=============================================================================
