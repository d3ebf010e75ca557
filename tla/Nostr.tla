--------------------------------- MODULE Nostr ---------------------------------
(***************************************************************************)
(* The nak command (src/nostr.rs): the daemon runs it to have a text       *)
(* signed by a remote signer, to verify a signed event, and to post one to *)
(* the relays.  What it prints is checked; a run that does not end well in *)
(* time, or prints too much, is killed and is an error.                    *)
(***************************************************************************)
EXTENDS Naturals, FiniteSets

CONSTANTS
  Key,    \* public keys the project is configured with, one after another
  Other   \* a key, and a text, of nobody here

ASSUME NostrAssumption == Other \notin Key

\* A signed event.  Its id is the hash of its author, second, and content
\* with its tags: events that agree in these have one id.
Signed(author, content, at, genuine) ==
  [id |-> [author |-> author, content |-> content, at |-> at], genuine |-> genuine]

\* run_nak: the one event that it printed, or nothing: it could not be
\* started, failed, printed too much or something else, or was killed at the
\* deadline, whatever it had done by then.
RunNak(printed) == {{}} \cup {{event} : event \in printed}

\* validate_signed_event: the author is the configured one; kind and form
\* of the fields are part of being an event here.
ValidateSignedEvent(event, identity) == event.id.author = identity

\* verify_event, nak's own check of id and signature.
VerifyEvent(event, identity) == ValidateSignedEvent(event, identity) /\ event.genuine

\* What a signer may answer to content, with whatever clock it has.
Answers(content, at) ==
  {Signed(a, c, at, g) : a \in Key \cup {Other}, c \in {content, Other}, g \in BOOLEAN}

\* Mutant: any event of the project's key is taken.
MutantAccepts(event, content, identity) == VerifyEvent(event, identity)

\* sign_kind1: the answer is the project's, says what was asked, and is genuine.
Accepts(event, content, identity) ==
  /\ ValidateSignedEvent(event, identity)
  /\ event.id.content = content
  /\ VerifyEvent(event, identity)

SignatureOf(content, at, identity) ==
  {{event \in signed : Accepts(event, content, identity)} :
     signed \in RunNak(Answers(content, at))}
=============================================================================
