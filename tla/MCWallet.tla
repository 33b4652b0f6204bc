------------------------------ MODULE MCWallet ------------------------------
(***************************************************************************)
(* Instances of WalletHistory for TLC.  One run explores four small worlds *)
(* of the same constants: the first state picks a scope, and no step may   *)
(* leave it.                                                               *)
(***************************************************************************)
EXTENDS WalletHistory

CONSTANTS w1, w2, e1, p1, p2, s1, r1, b1

VARIABLE scope

\* The passkey requests that change the set of authorities.
AuthorityRequests ==
    {<<"AddAuthority", <<k, r, r = RANK_DELEGATE>>>> : k \in Keys, r \in Ranks}
      \cup {<<"RemoveAuthority", <<x>>>> : x \in AuthorityPda}
      \cup {<<"TransferOwnership", <<k>>>> : k \in Keys}

\* The passkey requests that open and end sessions.
SessionRequests(ends) ==
    {<<"CreateSession", <<sk, e>>>> : sk \in SessionKeys, e \in ends}
      \cup {<<"RevokeSession", <<s>>>> : s \in SessionPda}

\* The requests whose assertions a relayer might submit twice.
SpendRequests(offsets) ==
    {<<"Execute", <<b>>>> : b \in Batches}
      \cup {<<"Authorize", <<b, o>>>> : b \in Batches, o \in offsets}

\* The worlds: which accounts there may be, how far the clock runs and what
\* clients sign.
Scopes ==
    [authorities |->
       [wallets |-> {w1}, keys |-> {e1, p1, p2}, sessions |-> {}, batches |-> {},
        payers |-> {r1}, slots |-> 0, requests |-> AuthorityRequests],
     isolation |->
       [wallets |-> {w1, w2}, keys |-> {p1, p2}, sessions |-> {s1}, batches |-> {b1},
        payers |-> {r1}, slots |-> 0,
        requests |-> AuthorityRequests \cup SessionRequests({1})
                       \cup SpendRequests({MIN_EXPIRY_SLOTS})],
     expiry |->
       [wallets |-> {w1}, keys |-> {p1}, sessions |-> {s1}, batches |-> {b1},
        payers |-> {r1}, slots |-> MaxSlot,
        requests |-> SessionRequests(1 .. MaxSlot + 1)
                       \cup SpendRequests({MIN_EXPIRY_SLOTS})],
     history |->
       [wallets |-> {w1}, keys |-> {e1, p1}, sessions |-> {}, batches |-> {b1},
        payers |-> {r1}, slots |-> MaxSlot,
        requests |-> SpendRequests(MIN_EXPIRY_SLOTS .. MAX_EXPIRY_SLOTS)]]

MC_Requests == UNION {Scopes[s].requests : s \in DOMAIN Scopes}

Within(s) ==
    /\ \A c \in signed : c.payer \in s.payers /\ <<c.op, c.body>> \in s.requests
    /\ slot <= s.slots
    /\ \A w \in Wallets \ s.wallets : wallet[w] = NoAccount
    /\ \A x \in Existing(auth) : x[2] \in s.keys
    /\ \A x \in Existing(session) :
         x[2] \in s.sessions /\ session[x].expires_at <= s.slots + MAX_SESSION_SLOTS
    /\ \A x \in Existing(deferred) : /\ deferred[x].batch \in s.batches
                                     /\ deferred[x].payer \in s.payers

\* The observer's record is kept only where nothing else varies.
MCRecord ==
    IF scope = "history" THEN Record ELSE UNCHANGED <<accepted, first, gone, owed>>

MCInit == HInit /\ scope \in DOMAIN Scopes
MCNext == Next /\ UNCHANGED scope /\ Within(Scopes[scope])' /\ MCRecord
MCSpec == MCInit /\ [][MCNext]_<<hvars, scope>>
=============================================================================
