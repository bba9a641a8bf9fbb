----------------------------- MODULE Onboarding -----------------------------
(***************************************************************************)
(* How a restaurant comes onto the platform and changes its profile:       *)
(* executeOnboarding and updateTenant of tenant.service.ts, and the        *)
(* RestaurantCreationWizard of the back office in front of the former.     *)
(*                                                                         *)
(* Both handlers look before they write.  The transaction of an onboarding *)
(* is one insertion here (it is all or nothing) and a commit: the welcome  *)
(* mail leaves between the two.  A request of the wizard competes with     *)
(* others that come straight to the API.                                   *)
(***************************************************************************)
EXTENDS ClientRequests, Naturals, Sequences, FiniteSets

CONSTANTS
  Requests,      \* requests; an onboarding gives its id to the tenant it creates
  Settled,       \* tenants that are there from the start (for updateTenant)
  Subdomains, Emails, Domains, BrandingKeys,
  Permissions,   \* the permissions that migrations bring, one migration each
  WizardSub, WizardMail   \* what is typed into the wizard

VARIABLES
  request,      \* per request: what it asks, what it has read, where it is
  tenants,      \* committed tenants, with the role of their owner
  permissions,  \* the rows of the permissions table
  straddled,    \* those that came while an onboarding's transaction was open
  welcomed,     \* requests whose welcome mail has left
  metWith,      \* per request: the requests that were under way at the same time
  domain, branding,          \* per settled tenant: customDomain and the dynamic branding
  acknowledged, \* per settled tenant: <<key, request>> that were answered with success
  step, filledIn, wizardSubmitting, result, apiError, session,
  sentByWizard, waitingFor,  \* what the wizard has sent, and whose answer it waits for
  answerLost

rights == <<permissions, straddled>>
serverVars == <<request, tenants, rights, welcomed, metWith>>
profileVars == <<domain, branding, acknowledged>>
wizardVars == <<step, filledIn, wizardSubmitting, result, apiError, session,
                sentByWizard, waitingFor, answerLost>>
onboardingVars == <<serverVars, profileVars, wizardVars>>

NoRequest == [at |-> "idle", sub |-> None, mail |-> None, tenant |-> None, domain |-> None,
              key |-> None, read |-> {}, role |-> None]
Ended == {"created", "updated", "conflict", "invalid", "clash", "rolledBack", "forbidden"}
OnboardPoints == {"subdomain", "email", "provision", "commit"}
UpdatePoints == {"read", "domain", "write"}
Role == [born : Nat, grants : SUBSET Permissions]
Request ==
  [at : Ended \cup {"idle"} \cup OnboardPoints \cup UpdatePoints,
   sub : Subdomains \cup {None}, mail : Emails \cup {None}, tenant : Settled \cup {None},
   domain : Domains \cup {None}, key : BrandingKeys \cup {None}, read : SUBSET BrandingKeys,
   role : Role \cup {None}]
Tenant == [id : Requests, sub : Subdomains, mail : Emails, role : Role]

ASSUME OnboardingAssumption ==
  /\ WizardSub \in Subdomains /\ WizardMail \in Emails
  /\ None \notin Requests \cup Ended

underWay(r) == request[r].at \notin Ended \cup {"idle"}

STEPS == <<"Company", "Account", "Plan", "Restaurant", "Review">>
InputSteps == {STEPS[n] : n \in 1..4}

OnboardingTypeOK ==
  /\ request \in [Requests -> Request] /\ tenants \subseteq Tenant
  /\ permissions \subseteq Permissions /\ straddled \subseteq Permissions
  /\ welcomed \subseteq Requests /\ metWith \in [Requests -> SUBSET Requests]
  /\ domain \in [Settled -> Domains \cup {None}]
  /\ branding \in [Settled -> SUBSET BrandingKeys]
  /\ acknowledged \in [Settled -> SUBSET (BrandingKeys \X Requests)]
  /\ step \in 1..5 /\ filledIn \in [InputSteps -> BOOLEAN]
  /\ wizardSubmitting \in BOOLEAN /\ answerLost \in BOOLEAN /\ session \in {None, "open", "none"}
  /\ waitingFor \subseteq sentByWizard /\ sentByWizard \subseteq Requests

OnboardingInit ==
  /\ request = [r \in Requests |-> NoRequest]
  /\ tenants = {} /\ permissions = {} /\ straddled = {}
  /\ welcomed = {} /\ metWith = [r \in Requests |-> {}]
  /\ domain = [t \in Settled |-> None]
  /\ branding = [t \in Settled |-> {}]
  /\ acknowledged = [t \in Settled |-> {}]
  /\ step = 1 /\ filledIn = [s \in InputSteps |-> FALSE]
  /\ wizardSubmitting = FALSE /\ result = None /\ apiError = None /\ session = None
  /\ sentByWizard = {} /\ waitingFor = {} /\ answerLost = FALSE

Goto(r, at) == request' = [request EXCEPT ![r].at = at]

\* A request arrives: it overlaps with those that are under way.
Arrives(r, body) ==
  /\ request[r].at = "idle"
  /\ request' = [request EXCEPT ![r] = body]
  /\ metWith' = [q \in Requests |->
       IF q = r THEN {x \in Requests : underWay(x)}
       ELSE IF underWay(q) THEN metWith[q] \cup {r} ELSE metWith[q]]
-----------------------------------------------------------------------------
(* executeOnboarding *)

onboard(sub, mail) == [NoRequest EXCEPT !.at = "subdomain", !.sub = sub, !.mail = mail]

CheckSubdomain(r) ==
  /\ request[r].at = "subdomain"
  /\ Goto(r, IF \E t \in tenants : t.sub = request[r].sub THEN "conflict" ELSE "email")
  /\ UNCHANGED <<tenants, rights, welcomed, metWith>>

\* Mutant: the e-mail address is not looked up.
CheckEmailNot(r) ==
  /\ request[r].at = "email"
  /\ Goto(r, "provision")
  /\ UNCHANGED <<tenants, rights, welcomed, metWith>>

\* The password is hashed after this, while others proceed.
CheckEmail(r) ==
  /\ request[r].at = "email"
  /\ Goto(r, IF \E t \in tenants : t.mail = request[r].mail THEN "conflict" ELSE "provision")
  /\ UNCHANGED <<tenants, rights, welcomed, metWith>>

oldest == CHOOSE t \in tenants : \A u \in tenants : t.role.born <= u.role.born

\* The oldest owner role of the platform is cloned if it has permissions;
\* otherwise the new role gets all permissions there are.
ownerGrants ==
  IF tenants # {} /\ oldest.role.grants # {} THEN oldest.role.grants ELSE permissions

ownerRole == [born |-> Cardinality(welcomed), grants |-> ownerGrants]

\* An uncommitted row with the same subdomain makes the insertion wait; a
\* committed one makes it fail on the unique index, and nobody answers 409.
holdsSubdomain(q, sub) == request[q].at = "commit" /\ request[q].sub = sub

\* Any statement may fail; the mail leaves when the last one has not.
ProvisionTenant(r) ==
  /\ request[r].at = "provision"
  /\ \A q \in Requests : ~holdsSubdomain(q, request[r].sub)
  /\ IF \E t \in tenants : t.sub = request[r].sub
     THEN Goto(r, "clash") /\ UNCHANGED welcomed
     ELSE \/ /\ request' = [request EXCEPT ![r].at = "commit", ![r].role = ownerRole]
             /\ welcomed' = welcomed \cup {r}
          \/ Goto(r, "rolledBack") /\ UNCHANGED welcomed
  /\ UNCHANGED <<tenants, rights, metWith>>

workspace(r) == [id |-> r, sub |-> request[r].sub, mail |-> request[r].mail, role |-> request[r].role]

\* Tenant, subscription, owner, role with its permissions, restaurant and branch
\* become visible together, or not at all.
CommitTenant(r) ==
  /\ request[r].at = "commit"
  /\ \/ Goto(r, "created") /\ tenants' = tenants \cup {workspace(r)}
     \/ Goto(r, "rolledBack") /\ UNCHANGED tenants
  /\ UNCHANGED <<rights, welcomed, metWith>>

\* A migration runs beside the API: it links its permission to the owner roles it can
\* see, and a role in an open transaction is not one of them.
MigrationRuns(p) ==
  /\ p \notin permissions
  /\ permissions' = permissions \cup {p}
  /\ tenants' = {[t EXCEPT !.role.grants = @ \cup {p}] : t \in tenants}
  /\ straddled' = IF \E r \in Requests : request[r].at = "commit" THEN straddled \cup {p}
                  ELSE straddled
  /\ UNCHANGED <<request, welcomed, metWith>>
-----------------------------------------------------------------------------
(* updateTenant *)

UpdateTenant(r, requester, t, d, k) ==
  Arrives(r, [NoRequest EXCEPT !.at = IF requester = t THEN "read" ELSE "forbidden",
                               !.tenant = t, !.domain = d, !.key = k])

ReadTenant(r) ==
  /\ request[r].at = "read"
  /\ request' = [request EXCEPT ![r].read = branding[request[r].tenant],
                                ![r].at = IF request[r].domain = None THEN "write" ELSE "domain"]
  /\ UNCHANGED metWith

taken(t, d) == \E o \in Settled \ {t} : domain[o] = d

CheckDomain(r) ==
  /\ request[r].at = "domain"
  /\ Goto(r, IF taken(request[r].tenant, request[r].domain) THEN "conflict" ELSE "write")
  /\ UNCHANGED metWith

\* The keys that were read and the new one; without one the column is left alone.
brandingMerged(q) == IF q.key = None THEN branding[q.tenant] ELSE q.read \cup {q.key}

WriteTenant(r) ==
  /\ request[r].at = "write"
  /\ LET q == request[r]
     IN IF q.domain # None /\ taken(q.tenant, q.domain)
        THEN Goto(r, "clash") /\ UNCHANGED <<domain, branding, acknowledged>>
        ELSE /\ Goto(r, "updated")
             /\ domain' = IF q.domain = None THEN domain ELSE [domain EXCEPT ![q.tenant] = q.domain]
             /\ branding' = [branding EXCEPT ![q.tenant] = brandingMerged(q)]
             /\ acknowledged' = IF q.key = None THEN acknowledged
                                ELSE [acknowledged EXCEPT ![q.tenant] = @ \cup {<<q.key, r>>}]
  /\ UNCHANGED metWith
-----------------------------------------------------------------------------
(* The wizard. *)

wizardShown == result = None
restOfWizard == UNCHANGED <<wizardSubmitting, result, apiError, session,
                            sentByWizard, waitingFor, answerLost>>

\* The inputs of the current step now pass the wizard's rules, or do not.
FillIn(valid) ==
  /\ wizardShown /\ step < 5
  /\ filledIn' = [filledIn EXCEPT ![STEPS[step]] = valid]
  /\ UNCHANGED step /\ restOfWizard

\* There is nothing to validate in the review.
validateStep(n) == IF n = 5 THEN TRUE ELSE filledIn[STEPS[n]]

NextStep ==
  /\ wizardShown /\ step < 5 /\ validateStep(step)
  /\ step' = step + 1
  /\ UNCHANGED filledIn /\ restOfWizard

\* Back is there while a submission is under way, too.
PrevStep ==
  /\ wizardShown /\ step > 1
  /\ step' = step - 1
  /\ UNCHANGED filledIn /\ restOfWizard

\* The DTO asks more than the wizard does (lengths, the form of the plan's id).
wizardBody(valid) ==
  IF valid THEN onboard(WizardSub, WizardMail)
  ELSE [NoRequest EXCEPT !.at = "invalid", !.sub = WizardSub, !.mail = WizardMail]

HandleSubmit(r, valid) ==
  /\ wizardShown /\ step = 5 /\ validateStep(step) /\ ~wizardSubmitting
  /\ Arrives(r, wizardBody(valid))
  /\ wizardSubmitting' = TRUE /\ apiError' = None
  /\ sentByWizard' = sentByWizard \cup {r} /\ waitingFor' = waitingFor \cup {r}
  /\ UNCHANGED <<step, filledIn, result, session, answerLost>>
  /\ UNCHANGED <<tenants, rights, welcomed, profileVars>>

awaited(r) == r \in waitingFor /\ result = None

HearOnboarded(r) ==
  /\ awaited(r) /\ request[r].at = "created"
  /\ result' = r
  /\ waitingFor' = waitingFor \ {r}
  /\ UNCHANGED <<step, filledIn, wizardSubmitting, apiError, session,
                 sentByWizard, answerLost>>

HearRefusal(r) ==
  /\ awaited(r) /\ request[r].at \in Ended \ {"created"}
  /\ apiError' = request[r].at /\ wizardSubmitting' = FALSE
  /\ waitingFor' = waitingFor \ {r}
  /\ UNCHANGED <<step, filledIn, result, session, sentByWizard,
                 answerLost>>

LoseOnboardAnswer(r) ==
  /\ awaited(r)
  /\ apiError' = "lost" /\ wizardSubmitting' = FALSE /\ answerLost' = TRUE
  /\ waitingFor' = waitingFor \ {r}
  /\ UNCHANGED <<step, filledIn, result, session, sentByWizard>>

\* The new owner is logged in; a failure is passed over.
AutoLogin(ok) ==
  /\ result # None /\ session = None
  /\ session' = IF ok THEN "open" ELSE "none"
  /\ wizardSubmitting' = FALSE
  /\ UNCHANGED <<step, filledIn, result, apiError, sentByWizard,
                 waitingFor, answerLost>>
-----------------------------------------------------------------------------
OnboardingRuns ==
  /\ \E r \in Requests : CheckSubdomain(r) \/ CheckEmail(r) \/ ProvisionTenant(r) \/ CommitTenant(r)
  /\ UNCHANGED <<profileVars, wizardVars>>

OthersOnboard(r, sub, mail) ==
  /\ Arrives(r, onboard(sub, mail))
  /\ UNCHANGED <<tenants, rights, welcomed, profileVars, wizardVars>>

WizardRuns ==
  /\ \/ \E valid \in BOOLEAN : FillIn(valid)
     \/ NextStep \/ PrevStep
     \/ \E r \in Requests : HearOnboarded(r) \/ HearRefusal(r) \/ LoseOnboardAnswer(r)
     \/ \E ok \in BOOLEAN : AutoLogin(ok)
  /\ UNCHANGED <<serverVars, profileVars>>

OnboardingNext ==
  \/ OnboardingRuns
  \/ \E r \in Requests, sub \in Subdomains, mail \in Emails : OthersOnboard(r, sub, mail)
PlatformNext ==
  \/ OnboardingNext
  \/ (\E p \in Permissions : MigrationRuns(p)) /\ UNCHANGED <<profileVars, wizardVars>>
WizardNext ==
  \/ OnboardingNext \/ WizardRuns
  \/ \E r \in Requests, valid \in BOOLEAN : HandleSubmit(r, valid)
ProfileNext ==
  /\ \/ /\ \E r \in Requests, q, t \in Settled, d \in Domains \cup {None}, k \in BrandingKeys \cup {None} :
             UpdateTenant(r, q, t, d, k)
        /\ UNCHANGED profileVars
     \/ /\ \E r \in Requests : ReadTenant(r) \/ CheckDomain(r)
        /\ UNCHANGED profileVars
     \/ \E r \in Requests : WriteTenant(r)
  /\ UNCHANGED <<tenants, rights, welcomed, wizardVars>>
OnboardingSpec == OnboardingInit /\ [][PlatformNext \/ WizardNext \/ ProfileNext]_onboardingVars
-----------------------------------------------------------------------------
(* Properties. *)

\* Two owners have one e-mail address only if their onboardings overlapped: the check of
\* the address comes before the password is hashed and the rows are written.
SharedEmailNeedsOverlap ==
  \A t, u \in tenants : t # u /\ t.mail = u.mail => u.id \in metWith[t.id]

\* A welcome mail is the sign of a workspace that exists, is about to, or whose commit
\* failed after the mail had left.
WelcomeMeansWorkspace ==
  \A r \in welcomed :
    (\E t \in tenants : t.id = r) \/ request[r].at \in {"commit", "rolledBack"}

\* An owner has every permission there is, except those whose migration ran while some
\* onboarding's transaction was open: the migration does not see that role, and when the
\* role is the oldest, the partial set is cloned into every later owner role.
OwnersMissOnlyStraddled ==
  \A t \in tenants : permissions \ t.role.grants \subseteq straddled

\* A unique index stops a request only if another one overlapped with it; otherwise the
\* duplicate is found by the lookup and answered with 409.
IndexStopsOnlyRaces ==
  \A r \in Requests : request[r].at = "clash" => metWith[r] # {}

\* A branding key that was answered with success is in the row, unless an overlapping
\* update wrote back what it had read before.
BrandingLostOnlyInRaces ==
  \A t \in Settled : \A a \in acknowledged[t] : a[1] \notin branding[t] => metWith[a[2]] # {}

\* Nothing the wizard's own rules reject reaches the server, although only the current
\* step is validated and one may go back and edit at any time.
SubmittedIsValidated ==
  step = 5 => \A s \in InputSteps : filledIn[s]

\* The wizard reports a conflict over a workspace it has created itself only after an
\* answer was lost: then the retry is refused though the onboarding succeeded.
OwnConflictNeedsLostAnswer ==
  apiError = "conflict" /\ ~answerLost =>
    \A t \in tenants : t.id \notin sentByWizard

\* What executeOnboarding, updateTenant and the wizard promise although each looks before
\* it writes: only overlaps and lost answers make the exceptions its parts name.
OnboardingInv ==
  /\ OnboardingTypeOK
  /\ SharedEmailNeedsOverlap
  /\ WelcomeMeansWorkspace
  /\ OwnersMissOnlyStraddled
  /\ IndexStopsOnlyRaces
  /\ BrandingLostOnlyInRaces
  /\ SubmittedIsValidated
  /\ OwnConflictNeedsLostAnswer
=============================================================================
