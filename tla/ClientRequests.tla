--------------------------- MODULE ClientRequests ---------------------------
(* What the browser applications share: the guards a state-changing request *)
(* of theirs meets at the API.                                              *)
EXTENDS Values

\* Mutant: a request without the header passes, as it did before the guard
\* resolved the caller by itself.
passesWithoutHeader(token, csrfHeader) == token

\* A request with a good bearer token needs the X-CSRF-Token header (403
\* without); any other one is refused by the JwtAuthGuard (401).
passesGuards(token, csrfHeader) == token /\ csrfHeader
=============================================================================
