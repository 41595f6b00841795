----------------------------- MODULE SecretKeys -----------------------------
(***************************************************************************)
(* Key material for encrypted chats (backend/internal/secretchat): one     *)
(* device publishes an identity and one-time prekeys, rotates its identity *)
(* after a reinstall and uploads again, while other devices claim bundles  *)
(* and open sessions with it.                                              *)
(*                                                                         *)
(* Key material is named by the identity it was generated under and, for a *)
(* prekey, by its key_id.  Claiming a bundle is two statements that each   *)
(* see what has committed by then; publishing is one transaction.          *)
(***************************************************************************)
EXTENDS Naturals, FiniteSets

CONSTANTS
    Claimers,       \* devices that start sessions with the publishing one
    KeyIds,         \* key_ids a client numbers its one-time prekeys with
    MaxIdentities,  \* bound on the identities of the publishing device
    MaxClaims       \* bound on the claims of one claimer

VARIABLES
    skIdentity,   \* device_identity_keys: the identity published last, 0 for none
    skLocal,      \* identity the device itself holds, ahead of it until it publishes
    skPrekeys,    \* device_one_time_prekeys: [ident, id, free]
    skRevoked,    \* devices.revoked_at is set
    skClaim,      \* claimer -> where its claim stands and the identity it has read
    skClaims,     \* claimer -> claims so far
    skSession,    \* claimer -> secret_chat_sessions.state of its session
    skHanded      \* (ghost) prekeys handed out: claimer, claim number, prekey

skVars == <<skIdentity, skLocal, skPrekeys, skRevoked, skClaim, skClaims, skSession, skHanded>>

Key(ident, id) == [ident |-> ident, id |-> id, free |-> TRUE]
NoClaim == [at |-> "idle", ident |-> 0]
Lowest(keys) == CHOOSE k \in keys : \A l \in keys : k.id <= l.id

Init ==
    /\ skIdentity = 0
    /\ skLocal = 1
    /\ skPrekeys = {}
    /\ skRevoked = FALSE
    /\ skClaim = [c \in Claimers |-> NoClaim]
    /\ skClaims = [c \in Claimers |-> 0]
    /\ skSession = [c \in Claimers |-> "none"]
    /\ skHanded = {}

\* The app is installed again: a new identity, and prekeys numbered from the start.
Reinstall ==
    /\ skLocal = skIdentity
    /\ skLocal < MaxIdentities
    /\ skLocal' = skLocal + 1
    /\ UNCHANGED <<skIdentity, skPrekeys, skRevoked, skClaim, skClaims, skSession, skHanded>>

\* Prekeys of an identity nobody will use again are dropped; those that stay win over
\* an upload that numbers a key as they do.
StalePrekeys == IF skIdentity # skLocal THEN skPrekeys ELSE {}

\* A form in which the upload replaces the key of the same number.
ReplacePrekeys(ids) ==
    {k \in skPrekeys \ StalePrekeys : k.id \notin ids} \cup {Key(skLocal, i) : i \in ids}

StorePrekeys(ids) ==
    LET kept == skPrekeys \ StalePrekeys
    IN  kept \cup {Key(skLocal, i) : i \in {j \in ids : \A k \in kept : k.id # j}}

\* A changed identity terminates the sessions of the device.
StoreKeys(ids) ==
    /\ skPrekeys' = StorePrekeys(ids)
    /\ skSession' = IF skIdentity \notin {0, skLocal}
                    THEN [c \in Claimers |-> IF skSession[c] = "none" THEN "none" ELSE "terminated"]
                    ELSE skSession
    /\ skIdentity' = skLocal

\* Keys of the right shape, for the device that is signed in and no other.
PublishKeys(ids) ==
    /\ ~skRevoked
    /\ StoreKeys(ids)
    /\ UNCHANGED <<skLocal, skRevoked, skClaim, skClaims, skHanded>>

\* A device is listed while it has keys and has not been revoked.
DevicesFor == skIdentity # 0 /\ ~skRevoked

bundles(c) ==
    /\ skClaim[c].at = "idle"
    /\ skClaims[c] < MaxClaims
    /\ DevicesFor
    /\ skClaim' = [skClaim EXCEPT ![c].at = "listed"]
    /\ skClaims' = [skClaims EXCEPT ![c] = @ + 1]
    /\ UNCHANGED <<skIdentity, skLocal, skPrekeys, skRevoked, skSession, skHanded>>

\* The first statement of the claim reads the identity, unless the device has been
\* revoked since it was listed.
ClaimIdentity(c) ==
    /\ skClaim[c].at = "listed"
    /\ skClaim' = [skClaim EXCEPT ![c] = IF DevicesFor THEN [at |-> "read", ident |-> skIdentity]
                                         ELSE NoClaim]
    /\ UNCHANGED <<skIdentity, skLocal, skPrekeys, skRevoked, skClaims, skSession, skHanded>>

Claimable == {k \in skPrekeys : k.free}

\* The second marks the lowest free prekey and returns it; without one the bundle
\* has the signed prekey alone.
ClaimBundle(c) ==
    /\ skClaim[c].at = "read"
    /\ IF Claimable = {} THEN UNCHANGED <<skPrekeys, skHanded>>
       ELSE LET k == Lowest(Claimable) IN
            /\ skPrekeys' = (skPrekeys \ {k}) \cup {[k EXCEPT !.free = FALSE]}
            /\ skHanded' = skHanded \cup {[to |-> c, nth |-> skClaims[c], ident |-> k.ident,
                                            id |-> k.id, with |-> skClaim[c].ident]}
    /\ skClaim' = [skClaim EXCEPT ![c].at = "claimed"]
    /\ UNCHANGED <<skIdentity, skLocal, skRevoked, skClaims, skSession>>

\* The claim is answered, or its transaction rolled back by a client that went away
\* between the statements; the answer may be lost and the prekey with it.
BundleAnswered(c) ==
    /\ skClaim[c].at \in {"read", "claimed"}
    /\ skClaim' = [skClaim EXCEPT ![c] = NoClaim]
    /\ UNCHANGED <<skIdentity, skLocal, skPrekeys, skRevoked, skClaims, skSession, skHanded>>

\* A session is recorded, or brought back from any state, as pending.
CreateSession(c) == skSession' = [skSession EXCEPT ![c] = "pending"]

StartSession(c) ==
    /\ \E h \in skHanded : h.to = c
    /\ CreateSession(c)
    /\ UNCHANGED <<skIdentity, skLocal, skPrekeys, skRevoked, skClaim, skClaims, skHanded>>

EstablishSession(c) ==
    /\ skSession[c] = "pending"
    /\ skSession' = [skSession EXCEPT ![c] = "established"]
    /\ UNCHANGED <<skIdentity, skLocal, skPrekeys, skRevoked, skClaim, skClaims, skHanded>>

\* The owner ends the device's sign-in (auth: devices.revoked_at).
RevokeDevice ==
    /\ ~skRevoked
    /\ skRevoked' = TRUE
    /\ UNCHANGED <<skIdentity, skLocal, skPrekeys, skClaim, skClaims, skSession, skHanded>>

Next ==
    \/ Reinstall \/ RevokeDevice
    \/ \E ids \in SUBSET KeyIds : PublishKeys(ids)
    \/ \E c \in Claimers : \/ bundles(c) \/ ClaimIdentity(c) \/ ClaimBundle(c) \/ BundleAnswered(c)
                           \/ StartSession(c) \/ EstablishSession(c)

Spec == Init /\ [][Next]_skVars

-----------------------------------------------------------------------------
(* Properties *)

\* A one-time prekey is handed out once, however claims, uploads of the same numbers
\* and reinstallations overlap (ClaimBundle: "reusing a one-time prekey would break the
\* forward-secrecy guarantee it exists to provide").
PrekeyHandedOnce ==
    \A g, h \in skHanded : g.ident = h.ident /\ g.id = h.id => g = h

-----------------------------------------------------------------------------
(* What the repository says of this code and the code does not do *)

\* secretchat.go:150-152 deletes old prekeys because "leaving them would hand out
\* unusable bundles": a claim that read the identity before the rotation commits takes
\* its prekey after it, and the bundle has the old identity and a prekey of the new.
BundlesAreOfOneIdentity ==
    \A h \in skHanded : h.ident = h.with
=============================================================================
