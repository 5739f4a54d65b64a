--------------------------- MODULE SessionOpening ---------------------------
(***************************************************************************)
(* What the open exchange promises to RakNetClient.run, without windows,   *)
(* candidates, packets or MTUs.  One request is made; a server may be      *)
(* verified, any number of times, only after it, and also after the        *)
(* session is open.  The first verification decides the header and may ask *)
(* for the application's connection, each one replaces the keys.  The      *)
(* attempt is given up only if no request was made.  OpenExchange          *)
(* implements this specification.                                          *)
(***************************************************************************)
CONSTANTS
  Epochs,  \* the key exchanges of the server
  None     \* no key exchange

VARIABLES
  outcome,    \* what handshake has returned or raised
  requested,  \* the request has left
  header,     \* the epoch of the session's header
  keys,       \* the epoch of the session's keys
  connecting  \* the application's connection request was sent

vars == <<outcome, requested, header, keys, connecting>>

Init ==
  /\ outcome = "pending"
  /\ requested = FALSE
  /\ header = None /\ keys = None
  /\ connecting = FALSE

Request ==
  /\ outcome = "pending"
  /\ ~requested
  /\ requested' = TRUE
  /\ UNCHANGED <<outcome, header, keys, connecting>>

VerifyFirst(e) ==
  /\ outcome \in {"pending", "open"}
  /\ requested
  /\ header = None
  /\ header' = e
  /\ keys' = e
  /\ connecting' \in BOOLEAN
  /\ UNCHANGED <<outcome, requested>>

VerifyAgain(e) ==
  /\ outcome \in {"pending", "open"}
  /\ header # None
  /\ keys' = e
  /\ UNCHANGED <<outcome, requested, header, connecting>>

Settle(verdict) ==
  /\ outcome = "pending"
  /\ outcome' = verdict
  /\ UNCHANGED <<requested, header, keys, connecting>>

Open == Settle("open")

GiveUp == ~requested /\ Settle("unanswered")

Fail == Settle("failed")

Next ==
  \/ Request
  \/ \E e \in Epochs : VerifyFirst(e) \/ VerifyAgain(e)
  \/ Open \/ GiveUp \/ Fail

Spec == Init /\ [][Next]_vars

=============================================================================
