------------------------------ MODULE Presentation ------------------------------
(***************************************************************************)
(* What a durable event says (src/presentation.rs, templates/phase1.toml): *)
(* the text for Nostr and the one for the overlay.  Each fills a template, *)
(* chosen by a digest of the event, so that an event that is rendered      *)
(* again says the same.  A text is its template and the values it shows.   *)
(***************************************************************************)
EXTENDS Integers, Sequences, FiniteSets

CONSTANTS
  Threshold,   \* the feeder threshold, in sats
  Digest       \* first bytes of the SHA-256 of an event and a purpose

Purposes == {"sats_received", "feeder_trigger", "interface_info", "goat"}

ASSUME PresentationAssumption ==
  /\ Threshold \in Nat \ {0}
  /\ \A seq \in DOMAIN Digest : Digest[seq] \in [Purposes -> Nat]

Goats == <<"dexter", "rowan", "cosmo", "newton", "nova">>

\* A template is the set of its placeholders.
CommonFields == {"new_amount", "difference_message", "goat_name"}
\* Mutant: the feeder's texts name a field that only payments fill.
MutantTemplates ==
  [sats_received  |-> [i \in 1..5 |-> CommonFields],
   feeder_trigger |-> [i \in 1..5 |-> CommonFields \cup {"difference"}],
   interface_info |-> [i \in 1..5 |-> {}]]

Templates ==
  [sats_received  |-> [i \in 1..5 |-> CommonFields],
   feeder_trigger |-> [i \in 1..5 |-> CommonFields],
   interface_info |-> [i \in 1..5 |-> {}]]

\* validate_catalog, without which no daemon starts.
ValidCatalog(catalog) ==
  \A category \in DOMAIN catalog : Len(catalog[category]) \in 1..1000

ASSUME TemplatesAreValid == ValidCatalog(Templates)

-----------------------------------------------------------------------------
NoText == [template |-> <<>>]
Nothing == [ok |-> TRUE, nostr |-> NoText, type |-> "none", overlay |-> NoText, goat |-> "none"]
Unrenderable == [Nothing EXCEPT !.ok = FALSE]

\* required_u64: a field of the payload that is an unsigned integer.
Has(event, field) == field \in DOMAIN event.payload /\ event.payload[field] \in Nat

StableIndex(event, purpose, len) == 1 + (Digest[event.seq][purpose] % len)
SelectTemplate(event, purpose) ==
  <<purpose, StableIndex(event, purpose, Len(Templates[purpose]))>>
Fields(template) == Templates[template[1]][template[2]]

\* The goat whose address was paid, or any.
GoatForEvent(event, user) ==
  IF user \in {Goats[i] : i \in 1..Len(Goats)} THEN user
  ELSE Goats[StableIndex(event, "goat", Len(Goats))]

RemainingSats(credit) ==
  IF credit < Threshold THEN Threshold - credit ELSE Threshold - (credit % Threshold)

\* The sats that are missing, or the feedings due and the sats beyond them.
DifferenceMessage(credit) ==
  IF credit < Threshold THEN [missing |-> RemainingSats(credit), due |-> 0, toward |-> 0]
  ELSE [missing |-> 0, due |-> credit \div Threshold, toward |-> credit % Threshold]

\* safe_substitute: every placeholder has a value, or there is no text.
SafeSubstitute(template, values) ==
  [template |-> template, values |-> [f \in Fields(template) |-> values[f]]]

CommonValues(amount, credit, goat) ==
  [new_amount |-> amount, difference_message |-> DifferenceMessage(credit), goat_name |-> goat]

\* A text for each side of the same template; Nostr has the goat's profile,
\* the overlay its name.
BothSides(category, template, values, goat) ==
  IF Fields(template) \subseteq DOMAIN values
  THEN [Nothing EXCEPT !.nostr = SafeSubstitute(template, [values EXCEPT !.goat_name = <<"profile", goat>>]),
                       !.type = category,
                       !.overlay = SafeSubstitute(template, values),
                       !.goat = goat]
  ELSE Unrenderable

RenderPayment(event) ==
  IF Has(event, "amount_sats") /\ Has(event, "feed_credit_sats")
  THEN LET p == event.payload
           goat == GoatForEvent(event, IF "address_user" \in DOMAIN p THEN p.address_user ELSE "herd")
           common == CommonValues(p.amount_sats, p.feed_credit_sats, goat)
           values == [f \in DOMAIN common \cup {"difference"} |->
                        IF f = "difference" THEN RemainingSats(p.feed_credit_sats) ELSE common[f]]
       IN BothSides("sats_received", SelectTemplate(event, "sats_received"), values, goat)
  ELSE Unrenderable

RenderFeeder(event) ==
  IF Has(event, "threshold_sats") /\ Has(event, "feed_credit_sats")
  THEN LET p == event.payload
           goat == GoatForEvent(event, "none")
       IN BothSides("feeder_trigger", SelectTemplate(event, "feeder_trigger"),
                    CommonValues(p.threshold_sats, p.feed_credit_sats, goat), goat)
  ELSE Unrenderable

RenderInterfaceInfo(event) ==
  LET template == SelectTemplate(event, "interface_info") IN
  IF Fields(template) = {}
  THEN [Nothing EXCEPT !.type = "interface_info", !.overlay = SafeSubstitute(template, <<>>)]
  ELSE Unrenderable

\* The message is written when the event is; it is given by its length.
RenderWeather(event) ==
  IF Has(event, "message") /\ event.payload.message \in 1..2000
  THEN [Nothing EXCEPT !.type = "weather_status",
                       !.overlay = [template |-> <<"message", event.payload.message>>]]
  ELSE Unrenderable

Render(event) ==
  CASE event.type = "payment_received" -> RenderPayment(event)
    [] event.type = "feeder_confirmed" -> RenderFeeder(event)
    [] event.type = "interface_info"   -> RenderInterfaceInfo(event)
    [] event.type = "weather_status"   -> RenderWeather(event)
    [] OTHER -> Nothing
=============================================================================
