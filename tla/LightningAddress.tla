--------------------------- MODULE LightningAddress ---------------------------
(***************************************************************************)
(* Paying a Lightning Address (src/lnurl.rs): a wallet discovers what may  *)
(* be sent, and its callback is handed an invoice that was made by Strike, *)
(* checked, and recorded for the address (create_and_record_receive_       *)
(* request of src/strike.rs, record_strike_receive_request of              *)
(* src/ledger/strike.rs), within the admission of InvoiceAdmission.        *)
(***************************************************************************)
EXTENDS InvoiceAdmission, Invoice

CONSTANTS
  User,         \* configured addresses
  Stranger,     \* a name that is no address
  MinSendable,  \* min_sendable_msat
  MaxSendable,  \* max_sendable_msat
  MsatPerSat,   \* 1,000
  Expiry,       \* invoice_expiry_seconds
  Asks,         \* bound: amounts that callbacks ask for
  RequestId     \* bound: ids of receive requests, and payment hashes

\* validate_lnurl and LnurlService::new; every metadata names its user, so a
\* description hash stands for one user.
ASSUME AddressAssumption ==
  /\ Stranger \notin User
  /\ MsatPerSat \in Nat \ {0} /\ Expiry \in Nat \ {0}
  /\ MinSendable \in Nat \ {0} /\ MaxSendable \in Nat /\ MinSendable <= MaxSendable
  /\ Asks \subseteq Nat

VARIABLES
  asked,     \* user and amount of each call that was admitted
  requests,  \* strike_receive_requests by id; a payment hash has one row
  result,    \* what each call will answer with
  handed     \* history: what callbacks were handed, and for what

address == <<asked, requests, result, handed>>

\* The registered addresses, as discovery shows them to a wallet.
Discovery ==
  [user \in User |-> [min_sendable |-> MinSendable, max_sendable |-> MaxSendable, metadata |-> user]]

Nothing == [user |-> Stranger, amount |-> 0]
NoRequest == [user |-> Stranger]
RowOf(ask, response) ==
  [user |-> ask.user, amount |-> ask.amount, payment |-> response.payment,
   description |-> Discovery[ask.user].metadata, invoice |-> response.invoice]

\* address and callback: a known user and a whole number of sats in range.
Callable(ask) ==
  /\ ask.user \in DOMAIN Discovery
  /\ ask.amount \in Discovery[ask.user].min_sendable..Discovery[ask.user].max_sendable
  /\ ask.amount % MsatPerSat = 0

\* What Strike may answer: another amount, name or expiry, an invoice that is
\* expired, from the future or forged, with a payment hash of its own or one
\* that is recorded already.
Responses(ask, r) ==
  LET Hashes == {r} \cup {q \in RequestId : requests[q] # NoRequest} IN
  [id : {r}, target : {"BTC", "USD"}, payment : Hashes, description : {Omitted, ask.user},
   requested : {Omitted, MsatToBtcDecimal(ask.amount)}, btc : {Omitted},
   invoice : [genuine : BOOLEAN, mainnet : {TRUE}, amount : {ask.amount, ask.amount + 1},
              payment : Hashes, description : {ask.user, Stranger},
              at : {now - Expiry, now, now + Skew + 1}, expiry : {Expiry, Expiry + 1}]]

AddressInit ==
  /\ Init
  /\ asked = [i \in Id |-> Nothing]
  /\ requests = [r \in RequestId |-> NoRequest]
  /\ result = [i \in Id |-> NoRequest]
  /\ handed = {}

\* A call that is over leaves nothing but its rows.
Forget ==
  /\ asked' = [i \in Id |-> IF call'[i] = Over THEN Nothing ELSE asked[i]]
  /\ result' = [i \in Id |-> IF call'[i] = Over THEN NoRequest ELSE result[i]]

\* A callback is refused for its user or amount, or by the admission; one
\* that is admitted asks Strike.
Callback(p, i, ask) ==
  /\ Callable(ask)
  /\ ReserveInvoice(p, i)
  /\ asked' = IF call'[i] = call[i] THEN asked ELSE [asked EXCEPT ![i] = ask]
  /\ UNCHANGED <<requests, result, handed>>

\* Mutant: a row that is there already is left as it is.
MutantIssue(i) ==
  /\ call[i].pc = "issuing"
  /\ \E r \in RequestId : \E response \in Responses(asked[i], r) :
       LET new == RowOf(asked[i], response) IN
         /\ Acceptable(response, asked[i].amount, Discovery[asked[i].user].metadata, Expiry, now)
         /\ IF requests[response.id] = NoRequest
            THEN requests' = [requests EXCEPT ![response.id] = new] /\ RecordReceiveRequest(i)
            ELSE UNCHANGED requests /\ FailCreation(i)
         /\ result' = [result EXCEPT ![i] = new]
  /\ UNCHANGED <<asked, handed>>

\* Strike's answer is checked and recorded: a new row, or one that is the
\* same already; another request's id or payment hash is an error.
Issue(i) ==
  /\ call[i].pc = "issuing"
  /\ \E r \in RequestId : \E response \in Responses(asked[i], r) :
       LET new == RowOf(asked[i], response) IN
         /\ Acceptable(response, asked[i].amount, Discovery[asked[i].user].metadata, Expiry, now)
         /\ \/ /\ requests[response.id] = NoRequest
               /\ \A q \in RequestId : requests[q] # NoRequest => requests[q].payment # new.payment
               /\ requests' = [requests EXCEPT ![response.id] = new]
               /\ RecordReceiveRequest(i)
            \/ /\ requests[response.id] = new
               /\ FailCreation(i)
               /\ UNCHANGED requests
         /\ result' = [result EXCEPT ![i] = new]
  /\ UNCHANGED <<asked, handed>>

\* The invoice is handed out after the reservation was given back.
HandOut(i) ==
  /\ FinishInvoiceAdmission(i)
  /\ handed' = handed \cup
       (IF result[i] = NoRequest THEN {} ELSE {[ask |-> asked[i], row |-> result[i]]})
  /\ Forget
  /\ UNCHANGED requests

AddressNext ==
  \/ \E p \in Process, i \in Id : \E ask \in [user : User \cup {Stranger}, amount : Asks] :
       Callback(p, i, ask)
  \/ \E i \in Id : Issue(i) \/ HandOut(i)
  \/ /\ Tick \/ (\E i \in Id : FailCreation(i) \/ Cancel(i)) \/ (\E p \in Process : Crash(p))
     /\ Forget
     /\ UNCHANGED <<requests, handed>>

AddressSpec == AddressInit /\ [][AddressNext]_<<vars, address>>
-----------------------------------------------------------------------------
(***************************************************************************)
(* Whoever pays an invoice that a callback was handed pays what the wallet *)
(* asked for, to the address it asked for: the signed invoice commits to   *)
(* both, and the row that a payment will be credited by, the only one with *)
(* its payment hash, says the same.  It was recorded before it was handed  *)
(* out and is never replaced, whatever Strike answers to others.           *)
(***************************************************************************)
InvoiceIsAsAsked ==
  /\ \A h \in handed :
       LET invoice == h.row.invoice IN
         /\ Callable(h.ask)
         /\ invoice.genuine /\ invoice.amount = h.ask.amount /\ invoice.description = h.ask.user
         /\ \E r \in RequestId :
              /\ requests[r] = h.row /\ h.row.payment = invoice.payment
              /\ h.row.user = h.ask.user /\ h.row.amount = h.ask.amount
  /\ \A r, s \in RequestId : requests[r] # NoRequest /\ requests[s] # NoRequest =>
       (requests[r].payment = requests[s].payment => r = s)
=============================================================================
