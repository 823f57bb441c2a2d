------------------------------ MODULE Sessions ------------------------------
(***************************************************************************)
(* The session store (users/sessions): sessions live in a signed cookie of *)
(* the browser and nowhere else, next to a second cookie that only says    *)
(* that somebody is impersonating.  The signature is external: a cookie    *)
(* that was not made by Encode does not decode.                            *)
(***************************************************************************)
EXTENDS Integers

CONSTANTS SessionDuration, None

NoJar == [session |-> None, impersonation |-> FALSE]

Encode(login, user, impersonator, now) ==
    [login |-> login, user |-> user, impersonator |-> impersonator, createdAt |-> now]

GetActingUserID(s) == IF s.impersonator # None THEN s.impersonator ELSE s.user

\* Whether a cookie stands for a session; what it decodes to is the cookie.
Decode(cookie, now) == cookie # None /\ now - cookie.createdAt <= SessionDuration

(***************************************************************************)
(* What a response says about the two cookies: a new value, "clear", or    *)
(* "keep".  It is worked out from the cookies the request came with.       *)
(***************************************************************************)
\* Mutant: the cookie is only set when the request came without it.
applyImpersonationCookieOnce(jar, shouldExist) ==
    CASE shouldExist /\ ~jar.impersonation -> "set"
      [] ~shouldExist /\ jar.impersonation -> "clear"
      [] OTHER -> "keep"

applyImpersonationCookie(jar, shouldExist) ==
    CASE shouldExist -> "set"
      [] ~shouldExist /\ jar.impersonation -> "clear"
      [] OTHER -> "keep"

SetSession(jar, login, user, impersonator, now) ==
    [session |-> Encode(login, user, impersonator, now),
     impersonation |-> applyImpersonationCookie(jar, impersonator # None)]

Clear(jar) == [session |-> None, impersonation |-> applyImpersonationCookie(jar, FALSE)]

\* The browser does what the response says.
Receive(jar, response) ==
    [session |-> response.session,
     impersonation |-> CASE response.impersonation = "set" -> TRUE
                         [] response.impersonation = "clear" -> FALSE
                         [] OTHER -> jar.impersonation]
=============================================================================
