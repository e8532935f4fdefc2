------------------------------- MODULE Grants -------------------------------
(***************************************************************************)
(* The OAuth grants of the MCP server (apps/mcp/oauth_views.py, models.py) *)
(* and the bearer tokens they hand out.  A grant is one consent: the token *)
(* minted for it, and the code whose row keeps the raw key until a client  *)
(* comes for it or the code is too old.  Each statement is a step of its   *)
(* own.  What a request is rejected for before it changes anything         *)
(* (redirect address, challenge, scope) is one way to leave.               *)
(***************************************************************************)
EXTENDS Naturals, FiniteSets

CONSTANTS
    Consents,     \* grants
    Handlers,     \* requests in flight
    MaxLost       \* requests that die, answers that do not arrive

ASSUME GrantsAssumption == MaxLost \in Nat

VARIABLES
    tokens,       \* APIToken of each grant: "none", "active" or "revoked"
    codes,        \* OAuthAuthorizationCode rows: there, used, key
    expired,      \* codes older than the TTL
    handlers,     \* what each request has read
    lost,
    given,        \* history: how often a grant's key was handed out
    withdrawn,    \* history: tokens someone revoked
    straddled     \* history: the TTL ran out during a redemption

grantVars == <<tokens, codes, expired, handlers, lost, given, withdrawn, straddled>>

NoCode == [there |-> FALSE, used |-> FALSE, key |-> FALSE]

\* `then' is where expire_unredeemed_codes returns to.
Free == [at |-> "idle", grants |-> {}, stale |-> {}, then |-> "idle"]

Handler == [at : {"idle", "list", "deactivate", "clear", "code", "claim"},
            grants : SUBSET Consents, stale : SUBSET Consents, then : {"idle", "code"}]

GrantsTypeOK ==
    /\ tokens \in [Consents -> {"none", "active", "revoked"}]
    /\ codes \in [Consents -> [there : BOOLEAN, used : BOOLEAN, key : BOOLEAN]]
    /\ expired \subseteq Consents
    /\ handlers \in [Handlers -> Handler]
    /\ lost \in 0 .. MaxLost
    /\ given \in [Consents -> Nat]
    /\ withdrawn \subseteq Consents /\ straddled \subseteq Consents

GrantsInit ==
    /\ tokens = [g \in Consents |-> "none"]
    /\ codes = [g \in Consents |-> NoCode]
    /\ expired = {}
    /\ handlers = [h \in Handlers |-> Free]
    /\ lost = 0
    /\ given = [g \in Consents |-> 0]
    /\ withdrawn = {} /\ straddled = {}

At(h, place) == handlers[h].at = place
Send(h, place) == handlers' = [handlers EXCEPT ![h].at = place]
Finish(h) == handlers' = [handlers EXCEPT ![h] = Free]

-----------------------------------------------------------------------------
(* AuthorizeView.post, allowed: mint, scrub old codes, create the code.    *)

MintToken(h, g) ==
    /\ At(h, "idle") /\ tokens[g] = "none"
    /\ tokens' = [tokens EXCEPT ![g] = "active"]
    /\ handlers' = [handlers EXCEPT ![h] = [Free EXCEPT !.at = "list", !.grants = {g},
                                                        !.then = "code"]]
    /\ UNCHANGED <<codes, expired, lost, given, withdrawn, straddled>>

CreateCode(h) ==
    /\ At(h, "code")
    /\ codes' = [g \in Consents |-> IF g \in handlers[h].grants
                                    THEN [there |-> TRUE, used |-> FALSE, key |-> TRUE]
                                    ELSE codes[g]]
    /\ Finish(h)
    /\ UNCHANGED <<tokens, expired, lost, given, withdrawn, straddled>>

-----------------------------------------------------------------------------
(* expire_unredeemed_codes: the tokens of stale codes are listed and       *)
(* deactivated, then the same query clears the keys.                       *)

Unredeemed == {g \in expired : codes[g].there /\ ~codes[g].used /\ codes[g].key}

ListStale(h) ==
    /\ At(h, "list")
    /\ handlers' = [handlers EXCEPT ![h] =
                      IF Unredeemed = {} THEN IF @.then = "idle" THEN Free
                                         ELSE [@ EXCEPT !.at = handlers[h].then]
                      ELSE [@ EXCEPT !.at = "deactivate", !.stale = Unredeemed]]
    /\ UNCHANGED <<tokens, codes, expired, lost, given, withdrawn, straddled>>

Deactivate(h) ==
    /\ At(h, "deactivate")
    /\ tokens' = [g \in Consents |-> IF g \in handlers[h].stale /\ tokens[g] = "active"
                                     THEN "revoked" ELSE tokens[g]]
    /\ Send(h, "clear")
    /\ UNCHANGED <<codes, expired, lost, given, withdrawn, straddled>>

\* The query's cutoff is the one of the listing; codes used since drop out.
ClearKeys(h) ==
    /\ At(h, "clear")
    /\ codes' = [g \in Consents |-> IF g \in handlers[h].stale \cap Unredeemed
                                    THEN [codes[g] EXCEPT !.key = FALSE] ELSE codes[g]]
    /\ handlers' = [handlers EXCEPT ![h] = IF @.then = "idle" THEN Free
                                           ELSE [@ EXCEPT !.at = handlers[h].then, !.stale = {}]]
    /\ UNCHANGED <<tokens, expired, lost, given, withdrawn, straddled>>

\* The TTL of a code runs out.
CodeAges(g) ==
    /\ codes[g].there /\ g \notin expired
    /\ expired' = expired \cup {g}
    /\ straddled' = IF \E h \in Handlers : At(h, "claim") /\ g \in handlers[h].grants
                    THEN straddled \cup {g} ELSE straddled
    /\ UNCHANGED <<tokens, codes, handlers, lost, given, withdrawn>>

-----------------------------------------------------------------------------
(* token(): read the row, check it, claim it, answer with the key.         *)

\* A used code is rejected; one too old is, after the old codes are scrubbed.
ReadCode(h, g) ==
    /\ At(h, "idle")
    /\ codes[g].there /\ ~codes[g].used
    /\ handlers' = [handlers EXCEPT ![h] =
                      IF g \in expired THEN [Free EXCEPT !.at = "list"]
                      ELSE [Free EXCEPT !.at = "claim", !.grants = {g},
                                        !.stale = IF codes[g].key THEN {} ELSE {g}]]
    /\ UNCHANGED <<tokens, codes, expired, lost, given, withdrawn, straddled>>

\* Mutant: the update forgets the condition on used_at.
AnyCode(g) == codes[g].there

\* WHERE used_at IS NULL
Unclaimed(g) == ~codes[g].used

\* The claim; the winner is answered with the key it read, if there was one.
ClaimCode(h) ==
    \E g \in handlers[h].grants :
        LET won == Unclaimed(g)
            gives == won /\ g \notin handlers[h].stale IN
        /\ At(h, "claim")
        /\ codes' = IF won THEN [codes EXCEPT ![g].used = TRUE, ![g].key = FALSE] ELSE codes
        /\ \/ given' = [given EXCEPT ![g] = @ + IF gives THEN 1 ELSE 0] /\ UNCHANGED lost
           \/ gives /\ lost < MaxLost /\ lost' = lost + 1 /\ UNCHANGED given
        /\ Finish(h)
        /\ UNCHANGED <<tokens, expired, withdrawn, straddled>>

-----------------------------------------------------------------------------
\* revoke() of whoever has the key, or the token page of the owner.
RevokeToken(g) ==
    /\ tokens[g] = "active"
    /\ tokens' = [tokens EXCEPT ![g] = "revoked"]
    /\ withdrawn' = withdrawn \cup {g}
    /\ UNCHANGED <<codes, expired, handlers, lost, given, straddled>>

HandlerDies(h) ==
    /\ ~At(h, "idle")
    /\ lost < MaxLost
    /\ lost' = lost + 1
    /\ Finish(h)
    /\ UNCHANGED <<tokens, codes, expired, given, withdrawn, straddled>>

GrantsNext ==
    \/ \E g \in Consents : CodeAges(g) \/ RevokeToken(g)
    \/ \E h \in Handlers :
        \/ \E g \in Consents : MintToken(h, g) \/ ReadCode(h, g)
        \/ ListStale(h) \/ Deactivate(h) \/ ClearKeys(h) \/ CreateCode(h)
        \/ ClaimCode(h) \/ HandlerDies(h)

GrantsSpec == GrantsInit /\ [][GrantsNext]_grantVars

-----------------------------------------------------------------------------
(* Properties.                                                             *)

\* A code yields its key once, however many redemptions race ("exactly one
\* wins"), and the key works: a token whose key was handed out is dead only
\* if someone revoked it, or if the code's time ran out during the
\* redemption, when a scrub may have listed it.
OneWorkingKey ==
    \A g \in Consents :
        /\ given[g] <= 1
        /\ given[g] > 0 /\ tokens[g] # "active" => g \in withdrawn \cup straddled

\* expire_unredeemed_codes: "the token it names — never delivered to anyone —
\* would stay live": it deactivates no token whose key was handed out.
OnlyUndeliveredExpire ==
    \A g \in Consents : given[g] > 0 /\ tokens[g] # "active" => g \in withdrawn
=============================================================================
