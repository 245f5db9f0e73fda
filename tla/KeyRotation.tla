---- MODULE KeyRotation ----
(***************************************************************************)
(* The rotation of Wompi's private key (scripts/rotate-wompi-prod-key.mjs) *)
(* and the calls made with it (pagos-service, src/lib/wompi.ts).           *)
(*                                                                         *)
(* The key is in four places: Wompi, where a new one ends the life of the  *)
(* one before; the secret of SST; the deployment, linked to the secret as  *)
(* it was; and the client of each Lambda instance, made by its first       *)
(* request from the deployment it belongs to.  Two operators may run the   *)
(* script at once.                                                         *)
(***************************************************************************)
EXTENDS Naturals, FiniteSets

CONSTANTS
  Operator, Instance,
  MaxKey              \* bound: how many keys Wompi makes

Key == 1 .. MaxKey
NoKey == 0
RefundStatus == {"APPROVED", "PENDING", "DECLINED", "ERROR"}

VARIABLES
  wompi,              \* the key Wompi accepts
  secret,             \* WompiPrivateKey
  deployed,           \* the secret when sst deploy last ran
  client,             \* the key of an instance's WompiClient, NoKey before its first request
  script, old, new,   \* of an operator: where the script is, and the keys it has read
  audit,              \* the entries of the audit log
  interrupted,        \* history: a script ended between the change and its entry
  refunded,           \* the refund in Wompi's books: its status, or "none"
  answer              \* history: the last refund, "ok" or an error

vars == <<wompi, secret, deployed, client, script, old, new, audit, interrupted, refunded, answer>>

TypeOK ==
  /\ wompi \in Key /\ secret \in Key /\ deployed \in Key
  /\ client \in [Instance -> Key \cup {NoKey}]
  /\ script \in [Operator -> {"idle", "read", "set", "verify", "audit"}]
  /\ old \in [Operator -> Key \cup {NoKey}] /\ new \in [Operator -> Key \cup {NoKey}]
  /\ audit \subseteq [old : Key, new : Key]
  /\ interrupted \in BOOLEAN
  /\ refunded \in RefundStatus \cup {"none"}
  /\ answer \in {"none", "ok", "error"}

Init ==
  /\ wompi = 1 /\ secret = 1 /\ deployed = 1
  /\ client = [i \in Instance |-> NoKey]
  /\ script = [o \in Operator |-> "idle"]
  /\ old = [o \in Operator |-> NoKey] /\ new = [o \in Operator |-> NoKey]
  /\ audit = {} /\ interrupted = FALSE
  /\ refunded = "none" /\ answer = "none"

keys == <<wompi, secret, deployed, client>>
scripts == <<script, old, new, audit, interrupted>>
refunds == <<refunded, answer>>

----
(* "Regenerate Private Key", in the dashboard of Wompi. *)
Regenerate ==
  /\ wompi < MaxKey
  /\ wompi' = wompi + 1
  /\ UNCHANGED <<secret, deployed, client, scripts, refunds>>

Deploy ==
  /\ deployed' = secret
  /\ client' = [i \in Instance |-> NoKey]
  /\ UNCHANGED <<wompi, secret, scripts, refunds>>

Goto(o, place) == script' = [script EXCEPT ![o] = place]

(* readCurrentValue; a dry run ends here. *)
ReadCurrent(o) ==
  /\ script[o] = "idle"
  /\ old' = [old EXCEPT ![o] = secret]
  /\ Goto(o, "read")
  /\ UNCHANGED <<keys, new, audit, interrupted, refunds>>

(* readNewKey: any key the operator has, of the right length, that is not
   the current one. *)
ReadNewKey(o, key) ==
  /\ script[o] = "read" /\ key <= wompi
  /\ key # old[o]
  /\ new' = [new EXCEPT ![o] = key]
  /\ Goto(o, "set")
  /\ UNCHANGED <<keys, old, audit, interrupted, refunds>>

(* setNewValue. *)
SetNewValue(o) ==
  /\ script[o] = "set"
  /\ secret' = new[o]
  /\ Goto(o, "verify")
  /\ UNCHANGED <<wompi, deployed, client, old, new, audit, interrupted, refunds>>

Verified(o) == secret = new[o]

(* The script reads the secret again, and exits if it is not the new key. *)
Verify(o) ==
  /\ script[o] = "verify"
  /\ IF Verified(o) THEN Goto(o, "audit") /\ UNCHANGED <<old, new>>
     ELSE /\ Goto(o, "idle")
          /\ old' = [old EXCEPT ![o] = NoKey] /\ new' = [new EXCEPT ![o] = NoKey]
  /\ UNCHANGED <<keys, audit, interrupted, refunds>>

EntrySwapped(o) == [old |-> new[o], new |-> old[o]]     \* mutant

AuditEntry(o) == [old |-> old[o], new |-> new[o]]

Audit(o) ==
  /\ script[o] = "audit"
  /\ audit' = audit \cup {AuditEntry(o)}
  /\ Goto(o, "idle")
  /\ old' = [old EXCEPT ![o] = NoKey] /\ new' = [new EXCEPT ![o] = NoKey]
  /\ UNCHANGED <<keys, interrupted, refunds>>

(* A command of the script fails, or the operator stops it, or it was a dry run. *)
Interrupt(o) ==
  /\ script[o] # "idle"
  /\ interrupted' = (interrupted \/ script[o] \in {"verify", "audit"})
  /\ Goto(o, "idle")
  /\ old' = [old EXCEPT ![o] = NoKey] /\ new' = [new EXCEPT ![o] = NoKey]
  /\ UNCHANGED <<keys, audit, refunds>>

----
(* The handler's first request makes the client (api/index.ts:176). *)
FirstRequest(i) ==
  /\ client[i] = NoKey
  /\ client' = [client EXCEPT ![i] = deployed]
  /\ UNCHANGED <<wompi, secret, deployed, scripts, refunds>>

Refunds(i) == client[i] = wompi      \* Wompi accepts the key

(* What comes back: a refund with an id, of some status; or an error, an
   answer without an id, or nothing. *)
Replies(i) == {"error"} \cup (IF Refunds(i) THEN RefundStatus ELSE {})

OkIfReached(reply) == "ok"       \* mutant: res.ok and data.id are not looked at

(* The status is passed on, and does not count. *)
OkOf(reply) == IF reply \in RefundStatus THEN "ok" ELSE "error"

(* refundTransaction, of one payment, until a refund of it stands.  Wompi may
   have it in its books although the answer is lost.  An instance that has
   just started refunds nothing. *)
RefundTransaction(i, reply) ==
  /\ client[i] # NoKey /\ refunded \notin {"APPROVED", "PENDING"}
  /\ reply \in Replies(i)
  /\ refunded' \in IF reply \in RefundStatus THEN {reply}
                   ELSE {refunded} \cup (IF Refunds(i) THEN RefundStatus ELSE {})
  /\ answer' = OkOf(reply)
  /\ UNCHANGED <<keys, scripts>>

(* Wompi settles a refund that was pending. *)
Settle(status) ==
  /\ refunded = "PENDING" /\ status # "PENDING"
  /\ refunded' = status
  /\ UNCHANGED <<keys, scripts, answer>>

ScriptStep(o) ==
  \/ ReadCurrent(o) \/ SetNewValue(o) \/ Verify(o) \/ Audit(o) \/ Interrupt(o)
  \/ \E k \in Key : ReadNewKey(o, k)

Next ==
  \/ Regenerate \/ Deploy
  \/ \E o \in Operator : ScriptStep(o)
  \/ \E i \in Instance : FirstRequest(i) \/ \E r \in RefundStatus \cup {"error"} : RefundTransaction(i, r)
  \/ \E s \in RefundStatus : Settle(s)

Spec == Init /\ [][Next]_vars

----
(***************************************************************************)
(* However two rotations interleave, when both are over the key in the     *)
(* secret has its entry in the log, unless one was interrupted after the   *)
(* change: a script that finds another's key leaves the entry to the other *)
(* (rotate-wompi-prod-key.mjs:150).                                        *)
(***************************************************************************)
SecretIsAudited ==
  (\A o \in Operator : script[o] = "idle") /\ ~interrupted /\ secret # 1 =>
    \E entry \in audit : entry.new = secret

(***************************************************************************)
(* A refund that the client calls done is in Wompi's books, whatever has   *)
(* become of the keys: an instance with a key that Wompi has replaced      *)
(* calls none done.  (It need not be paid: a status of DECLINED or ERROR   *)
(* is `ok: true` as well, wompi.ts:356-365.)                               *)
(***************************************************************************)
OkIsOnTheBooks == answer = "ok" => refunded # "none"
====
