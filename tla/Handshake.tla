----------------------------- MODULE Handshake ------------------------------
(***************************************************************************)
(* Registration of the two terminals: scripts/_init_handshake.py, the      *)
(* handlers of /init/handshake, bearer sessions, and what the public keys  *)
(* are used for.                                                           *)
(*                                                                         *)
(* POST checks that the role has no key and then writes key and session in *)
(* two more calls; DELETE removes the key, scans for the role's sessions   *)
(* and revokes one by one those that the scan's only page shows.  Neither  *)
(* holds anything while it works, and a script that gives up leaves its    *)
(* POST running.                                                           *)
(***************************************************************************)
EXTENDS Integers, FiniteSets

CONSTANTS
  Bearers,     \* bound: bearers, numbered in the order they are issued
  Posts,       \* POST /init/handshake requests in progress
  MaxWipes,    \* bound: DELETE requests
  MaxUpsets    \* bound: scripts that stop, requests that fail

ASSUME HandshakeAssumption == Bearers \subseteq Nat \ {0} /\ MaxWipes \in Nat /\ MaxUpsets \in Nat

Roles == {"operator", "client"}
Peer(r) == IF r = "operator" THEN "client" ELSE "operator"

\* A key pair is named by its role and a serial number: 0 is no key.
Keys == 0..2

VARIABLES
  pubkey,      \* PUBKEY items
  session,     \* SESSION items: [role, live]
  post,        \* the POST requests: role, key, where they are, bearer issued
  wipe,        \* the DELETE request: role, where it is, sessions to revoke
  wipes,
  upsets,
  ownKey,      \* own_kem_priv.key of a terminal
  peerKey,     \* peer_kem_pub.key
  bearerFile,  \* cloud_bearer.txt
  script,      \* where the script of a role is, the request it waits for
  keyRead,     \* a webhook's load_pubkeys: the operator's key, once read
  envelopes,   \* keys that envelopes for both have been sealed with
  missed,      \* bearers that escaped a DELETE: not on its page, not reached, written behind it
  disturbed    \* bearers of whose role a DELETE ran while or after they were issued

handVars == <<pubkey, session, post, wipe, wipes, upsets, ownKey, peerKey, bearerFile,
              script, keyRead, envelopes, missed, disturbed>>
cloudVars    == <<pubkey, session, wipe, wipes, upsets, missed>>
terminalVars == <<ownKey, peerKey, bearerFile>>
sealVars     == <<keyRead, envelopes>>

NoPost == [role |-> "none", key |-> 0, at |-> "none", bearer |-> 0, wiped |-> FALSE]
NoWipe == [role |-> "none", at |-> "none", todo |-> {}]

SessionRow == [role : Roles \union {"none"}, live : BOOLEAN]
PostRow    == [role : Roles \union {"none"}, key : Keys, at : {"none", "check", "key", "session", "reply"},
               bearer : Bearers \union {0}, wiped : BOOLEAN]
WipeRow    == [role : Roles \union {"none"}, at : {"none", "scan", "revoke"}, todo : SUBSET Bearers]
ScriptRow  == [at : {"none", "post", "wait", "peer"}, post : Posts \union {0}]

HandTypeOK ==
  /\ pubkey \in [Roles -> Keys]
  /\ session \in [Bearers -> SessionRow]
  /\ post \in [Posts -> PostRow]
  /\ wipe \in WipeRow
  /\ wipes \in 0..MaxWipes /\ upsets \in 0..MaxUpsets
  /\ ownKey \in [Roles -> Keys] /\ peerKey \in [Roles -> Keys]
  /\ bearerFile \in [Roles -> Bearers \union {0}]
  /\ script \in [Roles -> ScriptRow]
  /\ keyRead \in Keys
  /\ envelopes \subseteq [Roles -> Keys]
  /\ missed \subseteq Bearers /\ disturbed \subseteq Bearers

HandInit ==
  /\ pubkey = [r \in Roles |-> 0]
  /\ session = [b \in Bearers |-> [role |-> "none", live |-> FALSE]]
  /\ post = [p \in Posts |-> NoPost]
  /\ wipe = NoWipe
  /\ wipes = 0 /\ upsets = 0
  /\ ownKey = [r \in Roles |-> 0] /\ peerKey = [r \in Roles |-> 0]
  /\ bearerFile = [r \in Roles |-> 0]
  /\ script = [r \in Roles |-> [at |-> "none", post |-> 0]]
  /\ keyRead = 0
  /\ envelopes = {}
  /\ missed = {} /\ disturbed = {}

Upset == upsets < MaxUpsets /\ upsets' = upsets + 1

-----------------------------------------------------------------------------
(* The script on a terminal                                                *)

AlwaysNew(old) == 1 + (old % 2)  \* mutant: every run generates a key pair
OwnPair(old) == IF old = 0 THEN 1 ELSE old

StartScript(r) ==
  /\ script[r].at = "none"
  /\ ownKey' = [ownKey EXCEPT ![r] = OwnPair(@)]
  /\ script' = [script EXCEPT ![r].at = "post"]
  /\ UNCHANGED <<cloudVars, post, peerKey, bearerFile, sealVars, disturbed>>

SendPost(r, p) ==
  /\ script[r].at = "post"
  /\ post[p] = NoPost
  /\ post' = [post EXCEPT ![p] = [NoPost EXCEPT !.role = r, !.key = ownKey[r], !.at = "check"]]
  /\ script' = [script EXCEPT ![r] = [at |-> "wait", post |-> p]]
  /\ UNCHANGED <<cloudVars, terminalVars, sealVars, disturbed>>

\* It times out, or is stopped at any prompt; run again, it starts over.
StopScript(r) ==
  /\ script[r].at # "none"
  /\ Upset
  /\ script' = [script EXCEPT ![r] = [at |-> "none", post |-> 0]]
  /\ UNCHANGED <<pubkey, session, wipe, wipes, missed, post, terminalVars, sealVars, disturbed>>

\* The other party's key, as its script printed it; whatever the comparison
\* with the cloud then says, the file is written.
StorePeer(r) ==
  /\ script[r].at = "peer"
  /\ ownKey[Peer(r)] # 0
  /\ peerKey' = [peerKey EXCEPT ![r] = ownKey[Peer(r)]]
  /\ script' = [script EXCEPT ![r] = [at |-> "none", post |-> 0]]
  /\ UNCHANGED <<cloudVars, post, ownKey, bearerFile, sealVars, disturbed>>

-----------------------------------------------------------------------------
(* POST /init/handshake                                                    *)

\* A script still waiting for request p goes on at the given place.
Waiting(p, r) == script[r] = [at |-> "wait", post |-> p]
Resume(p, to) ==
  [script EXCEPT ![post[p].role] =
    IF Waiting(p, post[p].role) THEN [at |-> to, post |-> 0] ELSE @]

CheckRole(p) ==
  /\ post[p].at = "check"
  /\ IF pubkey[post[p].role] = 0
       THEN /\ post' = [post EXCEPT ![p].at = "key"]
            /\ UNCHANGED script
       ELSE /\ script' = Resume(p, "none")
            /\ post' = [post EXCEPT ![p] = NoPost]
  /\ UNCHANGED <<cloudVars, terminalVars, sealVars, disturbed>>

PutPubkey(p) ==
  /\ post[p].at = "key"
  /\ pubkey' = [pubkey EXCEPT ![post[p].role] = post[p].key]
  /\ post' = [post EXCEPT ![p].at = "session"]
  /\ UNCHANGED <<session, wipe, wipes, upsets, missed, terminalVars, script, sealVars, disturbed>>

Unissued == {b \in Bearers : session[b].role = "none"}

\* A DELETE has removed the key of a request under way, and its scan is over.
WrittenBehind(r) == pubkey[r] = 0 /\ ~(wipe.role = r /\ wipe.at = "scan")

PutSession(p) ==
  /\ post[p].at = "session"
  /\ \E b \in Unissued :
       /\ \A c \in Unissued : b <= c
       /\ session' = [session EXCEPT ![b] = [role |-> post[p].role, live |-> TRUE]]
       /\ post' = [post EXCEPT ![p].at = "reply", ![p].bearer = b]
       /\ disturbed' = IF post[p].wiped THEN disturbed \union {b} ELSE disturbed
       /\ missed' = IF WrittenBehind(post[p].role) THEN missed \union {b} ELSE missed
  /\ UNCHANGED <<pubkey, wipe, wipes, upsets, terminalVars, script, sealVars>>

ReplyBearer(p) ==
  /\ post[p].at = "reply"
  /\ bearerFile' = IF Waiting(p, post[p].role) THEN [bearerFile EXCEPT ![post[p].role] = post[p].bearer]
                                               ELSE bearerFile
  /\ script' = Resume(p, "peer")
  /\ post' = [post EXCEPT ![p] = NoPost]
  /\ UNCHANGED <<cloudVars, ownKey, peerKey, sealVars, disturbed>>

\* The handler ends part-way, or its answer is lost.
PostFails(p) ==
  /\ post[p] # NoPost
  /\ Upset
  /\ script' = Resume(p, "none")
  /\ post' = [post EXCEPT ![p] = NoPost]
  /\ UNCHANGED <<pubkey, session, wipe, wipes, missed, terminalVars, sealVars, disturbed>>

-----------------------------------------------------------------------------
(* DELETE /init/handshake/{role}                                           *)

Issued(r) == {b \in Bearers : session[b].role = r}

DeletePubkey(r) ==
  /\ wipe = NoWipe
  /\ wipes < MaxWipes
  /\ wipes' = wipes + 1
  /\ wipe' = [NoWipe EXCEPT !.role = r, !.at = "scan"]
  /\ pubkey' = [pubkey EXCEPT ![r] = 0]
  /\ disturbed' = disturbed \union Issued(r)
  /\ post' = [p \in Posts |-> IF post[p].role = r THEN [post[p] EXCEPT !.wiped = TRUE] ELSE post[p]]
  /\ UNCHANGED <<session, upsets, terminalVars, script, sealVars, missed>>

\* require_bearer: a session that is there and was not revoked
Accepted(b) == session[b].live
LiveSessions == {b \in Bearers : Accepted(b)}
AnyActor(r) == LiveSessions  \* mutant: the scan does not filter by actor
OfActor(r)  == {b \in LiveSessions : session[b].role = r}

\* One page of the table, an older copy perhaps, of which the filter leaves the
\* role's sessions: it need not show all that there are.
ScanSessions ==
  /\ wipe.at = "scan"
  /\ \E page \in SUBSET OfActor(wipe.role) :
       /\ wipe' = [wipe EXCEPT !.at = "revoke", !.todo = page]
       /\ missed' = missed \union (OfActor(wipe.role) \ page)
  /\ disturbed' = disturbed \union Issued(wipe.role)
  /\ post' = [p \in Posts |-> IF post[p].role = wipe.role THEN [post[p] EXCEPT !.wiped = TRUE] ELSE post[p]]
  /\ UNCHANGED <<pubkey, session, wipes, upsets, terminalVars, script, sealVars>>

\* One session of those found is revoked, or all are and the request is done.
OneOnly(todo) == Cardinality(todo) <= 1  \* mutant: the last is not revoked
AllDone(todo) == todo = {}

RevokeSession ==
  /\ wipe.at = "revoke"
  /\ IF AllDone(wipe.todo)
       THEN wipe' = NoWipe /\ UNCHANGED session
       ELSE \E b \in wipe.todo :
            /\ session' = [session EXCEPT ![b].live = FALSE]
            /\ wipe' = [wipe EXCEPT !.todo = @ \ {b}]
  /\ UNCHANGED <<pubkey, post, wipes, upsets, terminalVars, script, sealVars, missed, disturbed>>

WipeFails ==
  /\ wipe # NoWipe
  /\ Upset
  /\ missed' = missed \union (IF wipe.at = "scan" THEN OfActor(wipe.role) ELSE wipe.todo)
  /\ wipe' = NoWipe
  /\ UNCHANGED <<pubkey, session, post, wipes, terminalVars, script, sealVars, disturbed>>

-----------------------------------------------------------------------------
(* Sealing for both terminals                                              *)

\* load_pubkeys in the cloud reads one key and then the other.
ReadOperatorKey ==
  /\ keyRead = 0 /\ pubkey["operator"] # 0
  /\ keyRead' = pubkey["operator"]
  /\ UNCHANGED <<cloudVars, post, terminalVars, script, envelopes, disturbed>>

SealInCloud ==
  /\ keyRead # 0
  /\ envelopes' = envelopes \union
       (IF pubkey["client"] = 0 THEN {}
        ELSE {[r \in Roles |-> IF r = "operator" THEN keyRead ELSE pubkey["client"]]})
  /\ keyRead' = 0
  /\ UNCHANGED <<cloudVars, post, terminalVars, script, disturbed>>

\* A terminal's KeyBundle: its own key and the peer's, each from its file, or
\* 0 where the file is missing, for which load refuses.
KeyBundle(r) == [x \in Roles |-> IF x = r THEN ownKey[r] ELSE peerKey[r]]

\* encrypt_for_both
SealOnTerminal(r) ==
  /\ \A x \in Roles : KeyBundle(r)[x] # 0
  /\ envelopes' = envelopes \union {KeyBundle(r)}
  /\ UNCHANGED <<cloudVars, post, terminalVars, script, keyRead, disturbed>>

\* decrypt_for_both: a terminal opens what was wrapped with its own key.
Opens(r, e) == e[r] = ownKey[r]

-----------------------------------------------------------------------------
HandNext ==
  \/ \E r \in Roles :
       \/ StartScript(r) \/ (\E p \in Posts : SendPost(r, p)) \/ StopScript(r) \/ StorePeer(r)
       \/ DeletePubkey(r) \/ SealOnTerminal(r)
  \/ \E p \in Posts :
       CheckRole(p) \/ PutPubkey(p) \/ PutSession(p) \/ ReplyBearer(p) \/ PostFails(p)
  \/ ScanSessions \/ RevokeSession \/ WipeFails
  \/ ReadOperatorKey \/ SealInCloud

HandSpec == HandInit /\ [][HandNext]_handVars

-----------------------------------------------------------------------------
\* A bearer of a role that has no key is accepted only if it escaped the DELETE
\* that removed the key, in one of three ways: the scan's page did not show it,
\* the DELETE broke off before its turn, or a registration under way wrote it
\* with no scan to come.  All others are dead when the DELETE has answered,
\* whatever other registrations and scripts do meanwhile, and no later step
\* brings one back.
NoBearerWithoutKey ==
  \A b \in LiveSessions :
    pubkey[session[b].role] = 0 /\ wipe.role # session[b].role => b \in missed

\* A terminal that stored a bearer can use it, and the cloud holds its key,
\* unless a DELETE of the role ran while it was issued or later: lost answers,
\* repeated scripts, refused registrations and the other role's recovery do
\* not break it.
BearerWorks ==
  \A r \in Roles :
    bearerFile[r] # 0 /\ bearerFile[r] \notin disturbed =>
      Accepted(bearerFile[r]) /\ pubkey[r] = ownKey[r]

\* Whatever was sealed for both can be opened by both: a recovery registers
\* the key pair the terminal already has, so no wipe, mixed pair of keys or
\* old peer file makes an envelope unreadable.
EnvelopesOpen == \A e \in envelopes : \A r \in Roles : Opens(r, e)
=============================================================================
