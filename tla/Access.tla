------------------------------- MODULE Access -------------------------------
(***************************************************************************)
(* Who may call what: the verifiers of auth-verifier.ts, the checks that   *)
(* the handlers of an endpoint and the proxy make beside them, and the     *)
(* account whose status they read.                                         *)
(*                                                                         *)
(* A request has a header, made of the written type and what follows, and  *)
(* a credential that a client of this server may really hold.  A verifier  *)
(* is an operator from a request to the principal it is of, or to the name *)
(* of the error.  Signatures are unforgeable: a credential is what it is.  *)
(*                                                                         *)
(* The other modules begin where a handler has been told who calls.        *)
(***************************************************************************)
EXTENDS Naturals, Sequences, FiniteSets, TLC

CONSTANTS
  None,
  MaxRequests   \* bound: requests in a behaviour

VARIABLES
  status,   \* of the account: "up", "down", "deactivated" or "none"
  held,     \* the credentials that were given out and can be brought
  asked     \* requests, in the order they came: what, with which header, and how far

vars == <<status, held, asked>>

Answer(s) == [is |-> s, who |-> None]
Refused(e) == Answer(e)
As(who) == [is |-> "ok", who |-> who]
(* The first of a handler's checks that fails, in the order of the code. *)
FirstOf(checks, answer) ==
  LET failed == {i \in DOMAIN checks : checks[i][1]}
  IN  IF failed = {} THEN answer
      ELSE Refused(checks[CHOOSE i \in failed : \A j \in failed : i <= j][2])

-----------------------------------------------------------------------------
(* Scopes and methods. *)

AccessFull == {"access"}
AccessPrivileged == AccessFull \cup {"appPassPrivileged"}
AccessStandard == AccessPrivileged \cup {"appPass"}
Scopes == AccessStandard \cup {"refresh", "signupQueued", "takendown"}

(* One method of each kind stands for the methods of the kind. *)
ProtectedMethods == {"createAppPassword"}
PrivilegedMethods == {"getConvo", "createAccount"}
DefaultService(lxm) == IF lxm \in {"emitEvent", "createReport"} THEN "labeler" ELSE "appview"

-----------------------------------------------------------------------------
(* Credentials. *)

Jwt(typ, scope, iss, aud, lxm) ==
  [kind |-> "jwt", typ |-> typ, scope |-> scope, iss |-> iss, aud |-> aud, lxm |-> lxm, old |-> FALSE]
Secret(kind, scope, right) ==
  [kind |-> kind, typ |-> None, scope |-> scope, iss |-> None, aud |-> None, lxm |-> None, old |-> ~right]

(* createTokens: signed with the key of this server. *)
AccessJwt(scope) == Jwt("at+jwt", scope, "account", "pds", None)
RefreshJwt == Jwt("refresh+jwt", "refresh", "account", "pds", None)
(* createServiceJwt: signed with the key of the issuer, no "typ". *)
ServiceJwt(iss, aud, lxm) == Jwt(None, None, iss, aud, lxm)
AdminPassword(right) == Secret("basic", None, right)
(* Of the authorization server: its permissions are enough or they are not. *)
DpopToken(permits) == Secret("dpop", permits, TRUE)

-----------------------------------------------------------------------------
(* The header. *)

Written == {"Basic", "basic", "Bearer", "bearer", "DPoP", "dpop", "Negotiate"}
Upper ==
  "Basic" :> "BASIC" @@ "basic" :> "BASIC" @@ "Bearer" :> "BEARER" @@ "bearer" :> "BEARER" @@
  "DPoP" :> "DPOP" @@ "dpop" :> "DPOP" @@ "Negotiate" :> "NEGOTIATE"
Known == "BASIC" :> "Basic" @@ "BEARER" :> "Bearer" @@ "DPOP" :> "DPoP"

(* Object.hasOwn of an array: its indices and its length. *)
KnownAuthTypes == <<"Basic", "Bearer", "DPoP">>
HasOwn(w) == w \in {ToString(i - 1) : i \in DOMAIN KnownAuthTypes} \cup {"length"}

(* No header, or a type and a token; anything else is an error. *)
Header(type, words, token) == [type |-> type, words |-> words, token |-> token]
NoHeader == Header(None, 0, None)
Parsed(error, type, token) == [error |-> error, type |-> type, token |-> token]
ParseAuthorizationHeader(h) ==
  CASE h = NoHeader -> Parsed(None, None, None)
    [] h.words # 2 -> Parsed("Malformed authorization header", None, None)
    [] h.words = 2 /\ HasOwn(Upper[h.type]) -> Parsed(None, Upper[h.type], h.token)
    [] OTHER -> Parsed("Unsupported authorization type", None, None)

(* The token, if the header is of the type; a malformed header is an error. *)
TokenOf(type, h) ==
  LET p == ParseAuthorizationHeader(h) IN IF p.type = type THEN p.token ELSE None
BearerTokenFromRequest(h) == TokenOf("Bearer", h)

(* parseBasicAuth makes no difference between an error and another type. *)
ParseBasicAuth(h) == TokenOf("Basic", h)

(* Its lxm claim, of a token that need not be signed. *)
IsDefinitelyServiceAuth(h) ==
  LET t == BearerTokenFromRequest(h) IN t # None /\ t.kind = "jwt" /\ t.lxm # None

-----------------------------------------------------------------------------
(* Verifiers.  Options of an endpoint are a record, see Endpoint.          *)

(* An error while the header is parsed comes before anything else. *)
Parsing(h, answer) ==
  LET p == ParseAuthorizationHeader(h) IN IF p.error # None THEN Refused(p.error) ELSE answer

Unauthenticated(h) == IF h # NoHeader THEN Refused("AuthMissing") ELSE As([type |-> "nobody"])

AdminToken(h) ==
  LET t == ParseBasicAuth(h)
  IN  IF t = None \/ t.kind # "basic" \/ t.old THEN Refused("AuthMissing") ELSE As([type |-> "admin"])

(* Signed by its issuer for this server and this method. *)
VerifyServiceJwt(h, lxm, issuers) ==
  LET t == BearerTokenFromRequest(h)
  IN  Parsing(h,
        IF t = None THEN Refused("MissingJwt")
        ELSE FirstOf(<<<<t.kind # "jwt" \/ t.typ # None, "BadJwt">>,
                       <<t.old, "JwtExpired">>,
                       <<t.lxm # lxm, "BadJwtLexiconMethod">>,
                       <<t.iss \notin issuers, "UntrustedIss">>,
                       <<t.aud # "pds", "BadJwtAudience">>>>,
                     As([type |-> "service", iss |-> t.iss])))
ModService(h, lxm) == VerifyServiceJwt(h, lxm, {"mod"})
UserServiceAuth(h, lxm) == VerifyServiceJwt(h, lxm, {"account", "mod"})

Moderator(h, lxm) ==
  Parsing(h, IF ParseAuthorizationHeader(h).type = "Bearer" THEN ModService(h, lxm) ELSE AdminToken(h))

(* verifyBearerJwt: signed by this server, of the type, in one of the scopes. *)
VerifyBearerJwt(h, typ, scopes, expiredToo) ==
  LET t == BearerTokenFromRequest(h)
  IN  Parsing(h,
        IF t = None THEN Refused("AuthMissing")
        ELSE FirstOf(<<<<t.kind # "jwt" \/ t.typ # typ \/ t.aud # "pds", "InvalidToken">>,
                       <<t.old /\ ~expiredToo, "ExpiredToken">>,
                       <<t.scope \notin scopes, "Bad token scope">>>>,
                     As([type |-> "jwt", scope |-> t.scope])))
AccessToken(h, e) ==
  VerifyBearerJwt(h, "at+jwt", IF e.takedown THEN e.scopes \ {"takendown"} ELSE e.scopes, FALSE)
Refresh(h, expiredToo) == VerifyBearerJwt(h, "refresh+jwt", {"refresh"}, expiredToo)

(* The library verifies the token and its proof; that its permissions are  *)
(* enough is asserted when the account has been read, in VerifyStatus.     *)
OAuth(h) ==
  LET t == TokenOf("DPoP", h)
  IN  IF t = None \/ t.kind # "dpop" \/ t.old THEN Refused("InvalidToken")
      ELSE As([type |-> "oauth", permits |-> t.scope = "enough"])

Authorization(h, e) ==
  LET type == ParseAuthorizationHeader(h).type
  IN  Parsing(h, CASE type = "Bearer" -> AccessToken(h, e)
                   [] type = "DPoP" -> OAuth(h)
                   [] type = None -> Refused("AuthMissing")
                   [] OTHER -> Refused("Unexpected authorization type"))
AuthorizationOrAdminTokenOptional(h, e) ==
  LET type == ParseAuthorizationHeader(h).type
  IN  Parsing(h, CASE type \in {"Bearer", "DPoP"} -> Authorization(h, e)
                   [] type = "Basic" -> AdminToken(h)
                   [] OTHER -> Unauthenticated(h))
UserServiceAuthOptional(h, lxm) ==
  Parsing(h, IF ParseAuthorizationHeader(h).type = "Bearer" THEN UserServiceAuth(h, lxm)
             ELSE Unauthenticated(h))
AuthorizationOrUserServiceAuth(h, e) ==
  Parsing(h, IF IsDefinitelyServiceAuth(h) THEN UserServiceAuth(h, e.lxm) ELSE Authorization(h, e))

-----------------------------------------------------------------------------
(* Endpoints, one for each way to verify.                                  *)
(*   by        the verifier                                                *)
(*   scopes    of access tokens, takedown, deactivated: what it is to check*)
(*   oauth     an OAuth token can have the permissions                     *)

Endpoint(lxm, by, scopes, takedown, oauth) ==
  [lxm |-> lxm, by |-> by, scopes |-> scopes, takedown |-> takedown, oauth |-> oauth]

CreateInviteCode == Endpoint("createInviteCode", "adminToken", {}, FALSE, FALSE)
UpdateSubjectStatus == Endpoint("updateSubjectStatus", "moderator", {}, FALSE, FALSE)
CreateAccount == Endpoint("createAccount", "userServiceAuthOptional", {}, FALSE, FALSE)
RefreshSession == Endpoint("refreshSession", "refresh", {}, FALSE, FALSE)
DeleteSession == Endpoint("deleteSession", "refreshExpired", {}, FALSE, FALSE)
CreateAppPassword == Endpoint("createAppPassword", "authorization", AccessFull, TRUE, FALSE)
CreateRecord == Endpoint("createRecord", "authorization", AccessStandard, FALSE, TRUE)
UploadBlob == Endpoint("uploadBlob", "authorizationOrUserServiceAuth", AccessStandard, TRUE, TRUE)
GetServiceAuth == Endpoint("getServiceAuth", "authorization", AccessStandard \cup {"takendown"}, FALSE, TRUE)
GetRepo == Endpoint("getRepo", "authorizationOrAdminTokenOptional", AccessStandard \cup {"takendown"}, FALSE, TRUE)
Proxied(lxm) == Endpoint(lxm, "authorization", AccessStandard, FALSE, TRUE)

Handled == {CreateInviteCode, UpdateSubjectStatus, CreateAccount, RefreshSession, DeleteSession,
            CreateAppPassword, CreateRecord, UploadBlob, GetServiceAuth, GetRepo}
NotHandled == {Proxied("getConvo"), Proxied("emitEvent"), Proxied("getQuotes"), Proxied("createAppPassword")}

Verify(q) ==
  LET e == q.endpoint  h == q.header
  IN  CASE e.by = "adminToken" -> AdminToken(h)
        [] e.by = "moderator" -> Moderator(h, e.lxm)
        [] e.by = "userServiceAuthOptional" -> UserServiceAuthOptional(h, e.lxm)
        [] e.by = "refresh" -> Refresh(h, FALSE)
        [] e.by = "refreshExpired" -> Refresh(h, TRUE)
        [] e.by = "authorization" -> Authorization(h, e)
        [] e.by = "authorizationOrUserServiceAuth" -> AuthorizationOrUserServiceAuth(h, e)
        [] e.by = "authorizationOrAdminTokenOptional" -> AuthorizationOrAdminTokenOptional(h, e)

-----------------------------------------------------------------------------
(* What happens between requests. *)

Init ==
  /\ status = "up" /\ asked = <<>>
  /\ held = {AdminPassword(TRUE), AdminPassword(FALSE), ServiceJwt("mod", "pds", "updateSubjectStatus"),
             ServiceJwt("account", "pds", "uploadBlob"), ServiceJwt("account", "elsewhere", "uploadBlob")}

(* createSession: the scope is by the password and the takedown. *)
CreateSession ==
  /\ status # "none"
  /\ \E scope \in IF status = "down" THEN {"takendown"} ELSE AccessStandard :
       held' = held \cup {AccessJwt(scope), RefreshJwt}
  /\ UNCHANGED <<status, asked>>

(* The token endpoint of the library, if the account is neither. *)
Grant ==
  /\ status = "up"
  /\ \E permits \in {"enough", "less"} : held' = held \cup {DpopToken(permits)}
  /\ UNCHANGED <<status, asked>>

Expire ==
  /\ \E c \in held : c.kind # "basic" /\ held' = (held \ {c}) \cup {[c EXCEPT !.old = TRUE]}
  /\ UNCHANGED <<status, asked>>

ChangeStatus ==
  /\ status' \in {"up", "down", "deactivated", "none"} \ {status}
  /\ UNCHANGED <<held, asked>>

-----------------------------------------------------------------------------
(* A request. *)

(* Clients write the type as they like, and send what they hold with it. *)
Ask(e, h) ==
  /\ Len(asked) < MaxRequests
  /\ asked' = Append(asked, [endpoint |-> e, header |-> h, answer |-> Answer("new")])
  /\ UNCHANGED <<status, held>>

Reply(r, a) == asked' = [asked EXCEPT ![r].answer = a]

(* The verifier up to its awaits, of a handler. *)
VerifyToken(r) ==
  /\ asked[r].answer.is = "new" /\ asked[r].endpoint \in Handled
  /\ LET a == Verify(asked[r]) IN Reply(r, IF a.is = "ok" THEN [a EXCEPT !.is = "verified"] ELSE a)
  /\ UNCHANGED <<status, held>>

(* proxyHandler: a method, and a service to proxy to, before who calls. *)
ProxyHandler(r) ==
  LET e == asked[r].endpoint
      a == Verify(asked[r])
      may == a.who.type = "oauth" => a.who.permits
      weak == a.who.type = "jwt" /\ a.who.scope \notin AccessPrivileged
  IN  /\ asked[r].answer.is = "new" /\ e \in NotHandled
      /\ \/ e.lxm \in ProtectedMethods /\ Reply(r, Refused("Bad token method"))
         \/ /\ e.lxm \notin ProtectedMethods
            /\ \/ Reply(r, Refused("No service configured"))
               \/ /\ Reply(r, CASE a.is # "ok" -> a
                                [] a.is = "ok" /\ ~may -> Refused("Forbidden")
                                [] a.is = "ok" /\ may /\ weak /\ e.lxm \in PrivilegedMethods -> Refused("Bad token method")
                                [] OTHER -> [a EXCEPT !.is = "forward"])
      /\ UNCHANGED <<status, held>>

(* pipethroughStream, with a token signed for the account: what the other  *)
(* service answers, its internal error as a failure of the service.        *)
PipethroughStream(r) ==
  /\ asked[r].answer.is = "forward"
  /\ \E is \in {"ok", "UpstreamFailure", "upstream error"} : Reply(r, [asked[r].answer EXCEPT !.is = is])
  /\ UNCHANGED <<status, held>>

(* verifyStatus, findAccount: only what the endpoint is to check is read.  *)
(* createRecord reads the account itself, with both checks.  After that an *)
(* OAuth token is asked for the permission.                                *)
VerifyStatus(r) ==
  LET e == asked[r].endpoint
      a == asked[r].answer
      writes == e = CreateRecord
      reads == a.who.type \in {"jwt", "oauth"} /\ (e.takedown \/ writes)
      forbidden == a.who.type = "oauth" /\ ~(e.oauth /\ a.who.permits)
  IN  /\ a.is = "verified"
      /\ Reply(r, FirstOf(<<<<reads /\ status = "none", "AccountNotFound">>,
                            <<reads /\ status = "down", "AccountTakedown">>,
                            <<writes /\ status = "deactivated", "AccountDeactivated">>,
                            <<forbidden, "Forbidden">>>>,
                          [a EXCEPT !.is = "handle"]))
      /\ UNCHANGED <<status, held>>

(* getServiceAuth: a token for the account, for one method of a service or *)
(* for all; of one that is down only to move out, and with an app password *)
(* not for what needs more; and for no more than an hour or a minute.      *)
GetServiceAuthHandler(r, aud, lxm, tooLong) ==
  LET a == asked[r].answer
      jwt(S) == a.who.type = "jwt" /\ a.who.scope \in S
  IN  /\ a.is = "handle" /\ asked[r].endpoint = GetServiceAuth
      /\ LET refusal == FirstOf(<<<<jwt({"takendown"}) /\ lxm # "createAccount", "Bad token scope">>,
                                  <<jwt(Scopes \ AccessPrivileged) /\ lxm \in PrivilegedMethods, "insufficient access">>,
                                  <<tooLong, "BadExpiration">>,
                                  <<lxm \in ProtectedMethods, "protected method">>>>, [a EXCEPT !.is = "ok"])
         IN  /\ Reply(r, refusal)
             /\ held' = IF refusal.is = "ok" THEN held \cup {ServiceJwt("account", aud, lxm)} ELSE held
      /\ UNCHANGED status

(* assertRepoAvailability: nobody but an administrator and the account     *)
(* itself reads the repository of an account that is not up.               *)
IsUserOrAdmin(who) == who.type \in {"admin", "jwt", "oauth"}
AssertRepoAvailability(r) ==
  LET a == asked[r].answer
      other == ~IsUserOrAdmin(a.who)
  IN  /\ a.is = "handle" /\ asked[r].endpoint = GetRepo
      /\ Reply(r, FirstOf(<<<<status = "none", "RepoNotFound">>,
                            <<other /\ status = "down", "RepoTakendown">>,
                            <<other /\ status = "deactivated", "RepoDeactivated">>>>, [a EXCEPT !.is = "ok"]))
      /\ UNCHANGED <<status, held>>

(* What the other handlers do once they know who calls is elsewhere. *)
Handle(r) ==
  /\ asked[r].answer.is = "handle" /\ asked[r].endpoint \notin {GetServiceAuth, GetRepo}
  /\ Reply(r, [asked[r].answer EXCEPT !.is = "ok"])
  /\ UNCHANGED <<status, held>>

Headers == {NoHeader} \cup {Header(w, n, c) : w \in Written, n \in 1..3, c \in held}

Next ==
  \/ CreateSession \/ Grant \/ Expire \/ ChangeStatus
  \/ \E e \in Handled \cup NotHandled : \E h \in Headers : Ask(e, h)
  \/ \E r \in DOMAIN asked :
       \/ VerifyToken(r) \/ ProxyHandler(r) \/ PipethroughStream(r) \/ VerifyStatus(r)
       \/ \E aud \in {"pds", "elsewhere"}, tooLong \in BOOLEAN :
            \E lxm \in {None, "createAccount", "getConvo", "createAppPassword", "uploadBlob"} :
              GetServiceAuthHandler(r, aud, lxm, tooLong)
       \/ AssertRepoAvailability(r) \/ Handle(r)

Spec == Init /\ [][Next]_vars

-----------------------------------------------------------------------------
(* auth-verifier.ts:605, "authorization type is case-insensitive": a       *)
(* header that is well formed is not refused for its type, if that is one  *)
(* of the three, in capitals or not.                                       *)
CaseInsensitive ==
  \A r \in DOMAIN asked :
    LET h == asked[r].header
    IN  h.words = 2 /\ Upper[h.type] \in DOMAIN Known
          => asked[r].answer.is # "Unsupported authorization type"
=============================================================================
