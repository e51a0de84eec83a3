------------------------------ MODULE SurfaceLogin ------------------------------
(***************************************************************************)
(* The login flow of the four surfaces: one browser window that opens pages,  *)
(* is sent to a login page and from there to a page of its account, while an  *)
(* administrator changes what the account may do and sessions end.            *)
(*                                                                          *)
(* A path is a record: the console or the area of a surface, its login page   *)
(* with the next path in the query, or a page of no surface.                  *)
(***************************************************************************)
EXTENDS Naturals

CONSTANTS
  None,       \* no next path, no page
  Membership  \* bound: the sets of groups the account may be given

Role == {"admin", "ops", "customer", "merchant"}

ASSUME MembershipAssumption == Membership \subseteq SUBSET Role

\* /console/<role>/, then /<role>/ and what lies under it, /admin/ being the
\* Django admin; "/" and the case pages belong to no surface
Console(role) == [kind |-> "console", role |-> role]
Area(role)    == [kind |-> "area", role |-> role]
Public        == [kind |-> "public"]

SurfacePage == {Console(r) : r \in Role} \cup {Area(r) : r \in Role}
NextPath    == SurfacePage \cup {Public}

ASSUME NoneAssumption == None \notin NextPath

\* /login/<role>/?next=<path>
Login(role, path) == [kind |-> "login", role |-> role, next |-> path]
LoginPage == {Login(r, p) : r \in Role, p \in NextPath \cup {None}}

VARIABLES
  groups,     \* groups of the account
  superuser,  \* its is_superuser
  staff,      \* its is_staff
  signedIn,   \* is the browser's session authenticated?
  page,       \* the page the browser requests or shows
  answer,     \* "pending", then how the page was answered
  wanted,     \* the page that sent the anonymous browser to log in
  landed      \* did login choose the page, for the account as it still is?

account == <<groups, superuser, staff>>
vars == <<account, signedIn, page, answer, wanted, landed>>

--------------------------------------------------------------------------------
(* accounts/mixins.py, of an account that is signed in: of no other is it asked *)

\* is_admin_user
IsAdmin == superuser \/ "admin" \in groups

\* user_has_surface_access; a superuser only has the admin surface
HasSurfaceAccess(role) ==
  IF role = "admin" THEN IsAdmin ELSE role \in groups

--------------------------------------------------------------------------------
(* accounts/services/surface_redirects.py *)

\* get_primary_surface: the first of PRIMARY_ROLE_ORDER; without any, admin
PrimarySurface ==
  IF IsAdmin THEN "admin"
  ELSE IF "ops" \in groups THEN "ops"
  ELSE IF "customer" \in groups THEN "customer"
  ELSE IF "merchant" \in groups THEN "merchant"
  ELSE "admin"

\* faulty: the prefixes of the consoles only
CanAccessPath_Fault(path) ==
  \E r \in Role : path = Console(r) /\ HasSurfaceAccess(r)

\* faulty: any relative path will do
CanAccessPath_Any(path) == TRUE

\* user_can_access_path: SURFACE_ALLOWED_PREFIXES
CanAccessPath(path) ==
  \E r \in Role : path \in {Console(r), Area(r)} /\ HasSurfaceAccess(r)

\* faulty: the default where there is a next path, the next path where not
PostLoginPage_Swapped(surface, next) ==
  IF next # None /\ ~CanAccessPath(next) THEN Console(PrimarySurface) ELSE next

\* resolve_post_login_url
PostLoginPage(surface, next) ==
  IF next # None /\ CanAccessPath(next) THEN next
  ELSE Console(IF HasSurfaceAccess(surface) THEN surface ELSE PrimarySurface)

--------------------------------------------------------------------------------
Init ==
  /\ groups \in Membership
  /\ superuser \in BOOLEAN /\ staff \in BOOLEAN
  /\ signedIn = FALSE
  /\ page = Public
  /\ answer = "ok"
  /\ wanted = None
  /\ landed = FALSE

\* The visitor opens a page or a login page, with any next path
Open ==
  /\ answer # "pending"
  /\ page' \in NextPath \cup LoginPage
  /\ answer' = "pending"
  /\ wanted' = None
  /\ landed' = FALSE
  /\ UNCHANGED <<account, signedIn>>

\* faulty: no surface answers 403, all send to log in
Refuse_Fault ==
  /\ page' = Login(page.role, page)
  /\ wanted' = page
  /\ landed' = FALSE
  /\ UNCHANGED answer

\* PermissionDenied
Refuse ==
  /\ answer' = "forbidden"
  /\ UNCHANGED <<page, wanted, landed>>

\* SurfaceAccessMixin.dispatch
ServeSurface ==
  /\ answer = "pending"
  /\ page \in SurfacePage \ {Area("admin")}
  /\ \/ /\ ~signedIn
        /\ page' = Login(page.role, page)
        /\ wanted' = page
        /\ landed' = FALSE
        /\ UNCHANGED answer
     \/ signedIn /\ ~HasSurfaceAccess(page.role) /\ Refuse
     \/ /\ signedIn /\ HasSurfaceAccess(page.role)
        /\ answer' = "ok"
        /\ UNCHANGED <<page, wanted, landed>>
  /\ UNCHANGED <<account, signedIn>>

\* The Django admin has a login of its own, which is where it sends all others
ServeDjangoAdmin ==
  /\ answer = "pending"
  /\ page = Area("admin")
  /\ answer' = IF signedIn /\ staff THEN "ok" ELSE "django_login"
  /\ UNCHANGED <<account, signedIn, page, wanted, landed>>

ServePublic ==
  /\ answer = "pending"
  /\ page = Public
  /\ answer' = "ok"
  /\ UNCHANGED <<account, signedIn, page, wanted, landed>>

\* SurfaceLoginView.dispatch: redirect_authenticated_user, else the form
ServeLogin ==
  /\ answer = "pending"
  /\ page \in LoginPage
  /\ IF signedIn
       THEN /\ page' = PostLoginPage(page.role, page.next)
            /\ landed' = TRUE
            /\ UNCHANGED answer
       ELSE answer' = "form" /\ UNCHANGED <<page, landed>>
  /\ UNCHANGED <<account, signedIn, wanted>>

Serve == ServeSurface \/ ServeDjangoAdmin \/ ServePublic \/ ServeLogin

\* The form is posted with the right password: form_valid, get_success_url
SubmitLogin ==
  /\ answer = "form"
  /\ ~signedIn
  /\ signedIn' = TRUE
  /\ page' = PostLoginPage(page.role, page.next)
  /\ answer' = "pending"
  /\ landed' = TRUE
  /\ UNCHANGED <<account, wanted>>

\* LogoutView, next_page="landing"
Logout ==
  /\ answer # "pending"
  /\ signedIn' = FALSE
  /\ page' = Public
  /\ answer' = "pending"
  /\ wanted' = None
  /\ landed' = FALSE
  /\ UNCHANGED account

\* The session ends by itself: it expires or the account's password is reset
EndSession ==
  /\ signedIn
  /\ signedIn' = FALSE
  /\ landed' = FALSE
  /\ UNCHANGED <<account, page, answer, wanted>>

\* An administrator changes the account, at any time
ChangeAccount ==
  /\ groups' \in Membership
  /\ superuser' \in BOOLEAN /\ staff' \in BOOLEAN
  /\ account' # account
  /\ landed' = FALSE
  /\ UNCHANGED <<signedIn, page, answer, wanted>>

Next == Open \/ Serve \/ SubmitLogin \/ Logout \/ EndSession \/ ChangeAccount

Spec == Init /\ [][Next]_vars

\* The server answers what the browser requests, and the browser follows
\* redirects by itself
FairSpec == Spec /\ WF_vars(Serve)

--------------------------------------------------------------------------------
(* Properties *)

\* Every variable has its type.
TypeOK ==
  /\ groups \in Membership
  /\ superuser \in BOOLEAN /\ staff \in BOOLEAN
  /\ signedIn \in BOOLEAN
  /\ page \in NextPath \cup LoginPage
  /\ answer \in {"pending", "ok", "form", "forbidden", "django_login"}
  /\ answer = "form" => page \in LoginPage
  /\ wanted \in NextPath \cup {None}
  /\ landed \in BOOLEAN

\* Login never ends on "you do not have access": whatever surface an account
\* signs in at and whatever next path it brings, the page login chooses opens,
\* unless the account has no role at all or is changed meanwhile.  The choice
\* (surface_redirects.py) and the check (mixins.py) are made in two requests.
LandingOpens ==
  landed /\ answer = "forbidden" => groups = {} /\ ~superuser

\* Who was sent to log in by a page ends up on that page, not on the console of
\* another surface, if the account may open it; a chain of redirects, the login
\* page and its form lie in between.
BackWhereItBegan ==
  landed /\ answer # "pending" /\ wanted # None /\ HasSurfaceAccess(wanted.role) =>
    page = wanted

\* Every request comes to a page that is answered: the redirects of surfaces and
\* login pages never lead in a circle, whoever is signed in and however the
\* account changes.
RedirectsEnd == answer = "pending" ~> answer # "pending"
================================================================================
