--------------------------- MODULE SurfaceLoginProofs ---------------------------
(***************************************************************************)
(* Proofs about SurfaceLogin: where login leads, for every membership.        *)
(*                                                                          *)
(* Login decides where to go in one request and the page decides whom to let  *)
(* in in another.  LoginInv carries the decision of the first over to the     *)
(* second: a page login has chosen is one that the account may open, and the  *)
(* login page still knows the page that sent the visitor there.  ChainShrinks  *)
(* is the variant of the redirects.                                          *)
(***************************************************************************)
EXTENDS SurfaceLogin, TLAPS

NoRole == groups = {} /\ ~superuser

\* A page that login chose is a surface's and open to the account, if any is;
\* it is refused only to an account that may not open it
LandedInv ==
  landed =>
    /\ page \in SurfacePage
    /\ NoRole \/ HasSurfaceAccess(page.role)
    /\ answer = "forbidden" => ~HasSurfaceAccess(page.role)

\* The page that sent the visitor to log in is on the login page's address, and
\* is where login leads if the account may open it
WantedInv ==
  wanted # None =>
    /\ wanted \in SurfacePage
    /\ page \in LoginPage => page.next = wanted
    /\ landed /\ HasSurfaceAccess(wanted.role) => page = wanted

\* A form is shown on a login page
FormInv == answer = "form" => page \in LoginPage

LoginInv == groups \in SUBSET Role /\ LandedInv /\ WantedInv /\ FormInv

--------------------------------------------------------------------------------
\* What resolve_post_login_url answers is a page of a surface.  The account may
\* open it, if it has any role.
LEMMA PostLoginPageOpens ==
  ASSUME groups \in SUBSET Role, NEW surface \in Role, NEW next
  PROVE  /\ PostLoginPage(surface, next) \in SurfacePage
         /\ NoRole \/ HasSurfaceAccess(PostLoginPage(surface, next).role)
<1>1. CASE next # None /\ CanAccessPath(next)
  BY <1>1 DEF PostLoginPage, CanAccessPath, SurfacePage, Console, Area
<1>2. CASE ~(next # None /\ CanAccessPath(next))
  <2>1. PrimarySurface \in Role
    BY DEF PrimarySurface, Role
  <2>2. NoRole \/ HasSurfaceAccess(PrimarySurface)
    BY DEF PrimarySurface, HasSurfaceAccess, IsAdmin, NoRole, Role
  <2>3. PostLoginPage(surface, next) = 
          Console(IF HasSurfaceAccess(surface) THEN surface ELSE PrimarySurface)
    BY <1>2 DEF PostLoginPage
  <2>4. CASE HasSurfaceAccess(surface)
    BY <2>3, <2>4 DEF SurfacePage, Console
  <2>5. CASE ~HasSurfaceAccess(surface)
    BY <2>1, <2>2, <2>3, <2>5 DEF SurfacePage, Console
  <2> QED
    BY <2>4, <2>5
<1> QED
  BY <1>1, <1>2

\* The next path it is given is its answer if the account may open it.
LEMMA PostLoginPageReturns ==
  ASSUME NEW surface, NEW next \in SurfacePage, HasSurfaceAccess(next.role)
  PROVE  PostLoginPage(surface, next) = next
<1>1. next # None
  BY NoneAssumption DEF NextPath
<1>2. CanAccessPath(next)
  BY DEF CanAccessPath, SurfacePage, Console, Area
<1> QED
  BY <1>1, <1>2 DEF PostLoginPage

\* No page of a surface is a login page.
LEMMA KindsDiffer == SurfacePage \cap LoginPage = {}
<1>1. \A p \in SurfacePage : p.kind \in {"console", "area"}
  BY DEF SurfacePage, Console, Area
<1>2. \A p \in LoginPage : p.kind = "login"
  BY DEF LoginPage, Login
<1> QED
  BY <1>1, <1>2

--------------------------------------------------------------------------------
LEMMA LoginInvInit == Init => LoginInv
  BY MembershipAssumption DEF Init, LoginInv, LandedInv, WantedInv, FormInv

\* The step of login that chooses a page, after the form or without it.
LEMMA LandingStep ==
  ASSUME LoginInv, UNCHANGED <<account, wanted>>,
         page \in LoginPage, page' = PostLoginPage(page.role, page.next),
         landed' = TRUE, answer' = "pending"
  PROVE  LoginInv'
<1>1. page.role \in Role
  BY DEF LoginPage, Login
<1>2. /\ page' \in SurfacePage
      /\ NoRole \/ HasSurfaceAccess(page'.role)
  BY <1>1, PostLoginPageOpens DEF LoginInv
<1>3. LandedInv'
  BY <1>2 DEF LandedInv, NoRole, HasSurfaceAccess, IsAdmin, account
<1>4. ASSUME wanted # None, HasSurfaceAccess(wanted.role)
      PROVE  page' = wanted
  BY <1>4, PostLoginPageReturns DEF LoginInv, WantedInv
<1>5. WantedInv'
  BY <1>2, <1>4, KindsDiffer DEF LoginInv, WantedInv, HasSurfaceAccess, IsAdmin, account
<1> QED
  BY <1>3, <1>5 DEF LoginInv, FormInv, account

LEMMA LoginInvNext == LoginInv /\ [Next]_vars => LoginInv'
<1> SUFFICES ASSUME LoginInv, [Next]_vars
             PROVE  LoginInv'
  OBVIOUS
<1> USE DEF account
<1>1. CASE Open
  BY <1>1 DEF Open, LoginInv, LandedInv, WantedInv, FormInv
<1>2. CASE ServeSurface
  <2>1. CASE ~signedIn
    <3>1. /\ page \in SurfacePage /\ page' = Login(page.role, page)
          /\ wanted' = page /\ ~landed' /\ answer' = "pending" /\ UNCHANGED account
      BY <1>2, <2>1 DEF ServeSurface
    <3>2. page'.next = wanted'
      BY <3>1 DEF Login
    <3> QED
      BY <3>1, <3>2 DEF LoginInv, LandedInv, WantedInv, FormInv
  <2>2. CASE signedIn
    <3>1. UNCHANGED <<account, page, wanted, landed>>
      BY <1>2, <2>2 DEF ServeSurface, Refuse
    <3>2. answer' = "ok" \/ (answer' = "forbidden" /\ ~HasSurfaceAccess(page.role))
      BY <1>2, <2>2 DEF ServeSurface, Refuse
    <3> QED
      BY <3>1, <3>2 DEF LoginInv, LandedInv, WantedInv, FormInv, NoRole, HasSurfaceAccess, IsAdmin
  <2> QED
    BY <2>1, <2>2
<1>3. CASE ServeDjangoAdmin
  BY <1>3 DEF ServeDjangoAdmin, LoginInv, LandedInv, WantedInv, FormInv, NoRole, HasSurfaceAccess, IsAdmin
<1>4. CASE ServePublic
  BY <1>4 DEF ServePublic, LoginInv, LandedInv, WantedInv, FormInv, NoRole, HasSurfaceAccess, IsAdmin
<1>5. CASE ServeLogin
  <2>1. CASE signedIn
    BY <1>5, <2>1, LandingStep DEF ServeLogin
  <2>2. CASE ~signedIn
    BY <1>5, <2>2 DEF ServeLogin, LoginInv, LandedInv, WantedInv, FormInv, NoRole, HasSurfaceAccess, IsAdmin
  <2> QED
    BY <2>1, <2>2
<1>6. CASE SubmitLogin
  BY <1>6, LandingStep DEF SubmitLogin, LoginInv, FormInv
<1>7. CASE Logout
  BY <1>7 DEF Logout, LoginInv, LandedInv, WantedInv, FormInv
<1>8. CASE EndSession
  BY <1>8 DEF EndSession, LoginInv, LandedInv, WantedInv, FormInv
<1>9. CASE ChangeAccount
  BY <1>9, MembershipAssumption DEF ChangeAccount, LoginInv, LandedInv, WantedInv, FormInv
<1>10. CASE UNCHANGED vars
  BY <1>10 DEF vars, LoginInv, LandedInv, WantedInv, FormInv, NoRole, HasSurfaceAccess, IsAdmin
<1> QED
  BY <1>1, <1>2, <1>3, <1>4, <1>5, <1>6, <1>7, <1>8, <1>9, <1>10 DEF Next, Serve

\* The variables have their types.
LEMMA LoginTypeNext ==
  ASSUME LoginInv, TypeOK, [Next]_vars
  PROVE  TypeOK'
<1> USE DEF account
<1>1. CASE Open
  BY <1>1 DEF Open, TypeOK
<1>2. CASE ServeSurface
  <2>1. CASE ~signedIn
    <3>1. /\ page \in SurfacePage /\ page' = Login(page.role, page)
          /\ wanted' = page /\ ~landed' /\ answer' = "pending"
          /\ UNCHANGED <<account, signedIn>> /\ landed' \in BOOLEAN
      BY <1>2, <2>1 DEF ServeSurface
    <3>2. page.role \in Role
      BY <3>1 DEF SurfacePage, Console, Area
    <3> QED
      BY <3>1, <3>2 DEF TypeOK, NextPath, LoginPage
  <2>2. CASE signedIn
    BY <1>2, <2>2 DEF ServeSurface, Refuse, TypeOK
  <2> QED
    BY <2>1, <2>2
<1>3. CASE ServeDjangoAdmin \/ ServePublic
  BY <1>3 DEF ServeDjangoAdmin, ServePublic, TypeOK
<1>4. ASSUME page \in LoginPage, page' = PostLoginPage(page.role, page.next)
      PROVE  page' \in NextPath
  <2>1. page.role \in Role
    BY <1>4 DEF LoginPage, Login
  <2> QED
    BY <1>4, <2>1, PostLoginPageOpens DEF LoginInv, NextPath
<1>5. CASE ServeLogin
  BY <1>4, <1>5 DEF ServeLogin, TypeOK
<1>6. CASE SubmitLogin
  BY <1>4, <1>6 DEF SubmitLogin, TypeOK
<1>7. CASE Logout
  BY <1>7 DEF Logout, TypeOK, NextPath
<1>8. CASE EndSession \/ ChangeAccount
  BY <1>8 DEF EndSession, ChangeAccount, TypeOK
<1>9. CASE UNCHANGED vars
  BY <1>9 DEF vars, TypeOK
<1> QED
  BY <1>1, <1>2, <1>3, <1>5, <1>6, <1>7, <1>8, <1>9 DEF Next, Serve

--------------------------------------------------------------------------------
THEOREM LoginInvHolds == Spec => []LoginInv
  BY LoginInvInit, LoginInvNext, PTL DEF Spec

\* Every variable has its type; above all, a form is shown on a login page only.
THEOREM LoginTypeCorrect == Spec => []TypeOK
<1>1. Init => TypeOK
  BY DEF Init, TypeOK, NextPath
<1>2. LoginInv /\ TypeOK /\ [Next]_vars => TypeOK'
  BY LoginTypeNext
<1> QED
  BY <1>1, <1>2, LoginInvHolds, PTL DEF Spec

\* The page login chooses opens for every account with a role, whatever it asked
\* for, unless the account changes between the two requests.
THEOREM LandingAlwaysOpens == Spec => []LandingOpens
<1>1. LoginInv => LandingOpens
  BY DEF LoginInv, LandedInv, LandingOpens, NoRole
<1> QED
  BY <1>1, LoginInvHolds, PTL

\* Who was sent to log in by a page that is open to the account gets back to it.
THEOREM AlwaysBackWhereItBegan == Spec => []BackWhereItBegan
<1>1. LoginInv => BackWhereItBegan
  BY DEF LoginInv, WantedInv, BackWhereItBegan
<1> QED
  BY <1>1, LoginInvHolds, PTL
--------------------------------------------------------------------------------
(* Chains of redirects are short *)

\* How many more requests a chain can take.  A session may end within a chain,
\* which sends a signed-in visitor back to log in, but cannot begin in one.
RedirectsLeft ==
  IF signedIn THEN IF page \in LoginPage THEN 4 ELSE 3
              ELSE IF page \in LoginPage THEN 1 ELSE 2

\* While a request is pending no step makes the chain longer, and one of the
\* server answers it or brings it closer to its end.
ChainShrinks ==
  answer = "pending" =>
    /\ answer' # "pending" \/ RedirectsLeft' <= RedirectsLeft
    /\ Serve => answer' # "pending" \/ RedirectsLeft' < RedirectsLeft

\* Each answer of the server ends the chain or shortens it.
LEMMA EveryServe ==
  ASSUME LoginInv, TypeOK, Serve
  PROVE  answer' # "pending" \/ RedirectsLeft' < RedirectsLeft
<1>1. CASE ServeSurface
  <2>1. CASE ~signedIn
    <3>1. page \in SurfacePage /\ page' = Login(page.role, page) /\ ~signedIn'
      BY <1>1, <2>1 DEF ServeSurface
    <3>2. page' \in LoginPage
      BY <3>1 DEF SurfacePage, Console, Area, LoginPage, NextPath
    <3> QED
      BY <2>1, <3>1, <3>2, KindsDiffer DEF RedirectsLeft
  <2>2. CASE signedIn
    BY <1>1, <2>2 DEF ServeSurface, Refuse
  <2> QED
    BY <2>1, <2>2
<1>2. CASE ServeDjangoAdmin \/ ServePublic
  BY <1>2 DEF ServeDjangoAdmin, ServePublic
<1>3. CASE ServeLogin
  <2>1. CASE ~signedIn
    BY <1>3, <2>1 DEF ServeLogin
  <2>2. CASE signedIn
    <3>1. page \in LoginPage /\ page' = PostLoginPage(page.role, page.next) /\ signedIn'
      BY <1>3, <2>2 DEF ServeLogin
    <3>2. page.role \in Role
      BY <3>1 DEF LoginPage, Login
    <3>3. page' \in SurfacePage
      BY <3>1, <3>2, PostLoginPageOpens DEF LoginInv
    <3> QED
      BY <2>2, <3>1, <3>3, KindsDiffer DEF RedirectsLeft
  <2> QED
    BY <2>1, <2>2
<1> QED
  BY <1>1, <1>2, <1>3 DEF Serve

\* The other steps that may come in between do not make it longer.
LEMMA EveryChain == LoginInv /\ TypeOK /\ [Next]_vars => ChainShrinks
<1> SUFFICES ASSUME LoginInv, TypeOK, [Next]_vars, answer = "pending"
             PROVE  /\ answer' # "pending" \/ RedirectsLeft' <= RedirectsLeft
                    /\ Serve => answer' # "pending" \/ RedirectsLeft' < RedirectsLeft
  BY DEF ChainShrinks
<1>1. RedirectsLeft \in Nat /\ RedirectsLeft' \in Nat
  BY DEF RedirectsLeft
<1>2. Serve => answer' # "pending" \/ RedirectsLeft' < RedirectsLeft
  BY EveryServe
<1>3. CASE Serve
  BY <1>1, <1>2, <1>3
<1>4. CASE EndSession
  BY <1>2, <1>4 DEF EndSession, RedirectsLeft
<1>5. CASE ChangeAccount \/ UNCHANGED vars
  <2>1. UNCHANGED <<signedIn, page>>
    BY <1>5 DEF ChangeAccount, vars
  <2> QED
    BY <1>2, <2>1 DEF RedirectsLeft
<1>6. ~(Open \/ SubmitLogin \/ Logout)
  BY DEF Open, SubmitLogin, Logout
<1> QED
  BY <1>2, <1>3, <1>4, <1>5, <1>6 DEF Next

\* No chain of redirects takes more than four requests, whoever is signed in, and
\* though the session may end and the account change within it: surfaces and login
\* pages never send the browser in a circle (SurfaceAccessMixin.dispatch,
\* SurfaceLoginView.dispatch).
THEOREM ChainsAlwaysShrink == Spec => [][ChainShrinks]_vars
BY LoginInvHolds, LoginTypeCorrect, EveryChain, PTL DEF Spec
================================================================================
