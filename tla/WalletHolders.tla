--------------------------- MODULE WalletHolders ---------------------------
(***************************************************************************)
(* One wallet on chain, slot by slot, under the transactions its holders   *)
(* may land: what a client that inspects the wallet reads against.  The    *)
(* effects are those of the program's instructions (src/program), seen     *)
(* from who holds power over the vault.  A state keeps                     *)
(*   own    the authority at the address of the inspecting passkey: none,  *)
(*          intact (Owner rank, that passkey's key) or rekeyed (the same   *)
(*          address re-created with another key);                          *)
(*   count  its replay counter;       auths  the keys of other authorities *)
(*   sess   sessions [key, exp];      defer  expiries of pending deferreds *)
(*   plain  the vault is a plain system account;                           *)
(*   grants rights over the vault's tokens [kind, to]: a delegate or close *)
(*          authority on an account the vault owns, or the owner of a      *)
(*          watched canonical account handed away;                         *)
(*   alive  the wallet account exists (only MigrateWallet closes it).      *)
(***************************************************************************)
EXTENDS Integers, FiniteSets

CONSTANTS
    Keys,       \* Ed25519 keys that may hold a place on the wallet
    Trusted,    \* those the integrator vouches for
    MaxSlot,    \* bound: last slot of a behaviour
    MaxTxs,     \* bound: transactions that land on the wallet
    FirstStates \* states the wallet may be in when the inspection starts

VARIABLES
    slot,       \* newest slot of the cluster
    chain,      \* the wallet after each slot 0..slot
    txs         \* transactions landed so far

GrantKinds == {"delegate", "owner"}
Rekeyed == "rekeyed"

(* Whoever a holder may name: a vouched key is trusted to name no other.   *)
MayName(k) == IF k \in Trusted THEN Trusted ELSE Keys

(* What making the vault sign may leave behind (Execute's CPIs): a right   *)
(* over its tokens given or taken back, the vault assigned away.           *)
VaultSigns(s, k) ==
    {[s EXCEPT !.grants = @ \cup {[kind |-> d, to |-> y]}] :
        d \in GrantKinds, y \in MayName(k)}
    \cup {[s EXCEPT !.grants = @ \ {g}] : g \in s.grants}
    \cup (IF k \in Trusted THEN {} ELSE {[s EXCEPT !.plain = FALSE]})

(* AddAuthority, RemoveAuthority and TransferOwnership by an Owner-rank    *)
(* authority k; the last Owner stays.  A re-created authority counts from  *)
(* zero, and only the address is fixed: it may hold another key.  A        *)
(* vouched key leaves the membership alone.                                *)
Manages(s, k) ==
    LET fresh == {[s EXCEPT !.own = o, !.count = 0] : o \in {"intact", Rekeyed}}
        handed == IF s.own = "none" THEN fresh ELSE {}
    IN  {[s EXCEPT !.auths = @ \cup {y}] : y \in Keys}
        \cup {[s EXCEPT !.auths = @ \ {y}] :
                y \in {a \in s.auths : s.own # "none" \/ s.auths # {a}}}
        \cup (IF s.own # "none" /\ s.auths # {}
              THEN {[s EXCEPT !.own = "none", !.count = 0]} ELSE {})
        \cup handed
        \cup {[h EXCEPT !.auths = @ \ {k}] : h \in handed}

(* CreateSession and Authorize: the expiry lies after the slot it lands in *)
Opens(s, k, now) ==
    {[s EXCEPT !.sess = @ \cup {[key |-> y, exp |-> e]}] :
        y \in MayName(k), e \in now + 1 .. MaxSlot}
    \cup (IF k \in Trusted THEN {}
          ELSE {[s EXCEPT !.defer = @ \cup {e}] : e \in now + 1 .. MaxSlot})

(* MigrateWallet: the wallet and the authority that signs close.           *)
Closes(s, k) ==
    {[s EXCEPT !.alive = FALSE, !.plain = TRUE,
               !.auths = @ \ {k}, !.own = IF k = Rekeyed THEN "none" ELSE @]}

ByAuthority(s, now) ==
    LET holders == s.auths \cup ({s.own} \cap {Rekeyed})
    IN  UNION {VaultSigns(s, k) \cup Opens(s, k, now) : k \in holders}
        \cup UNION {Manages(s, k) \cup Closes(s, k) : k \in holders \ Trusted}

(* A session acts through the slot it expires at; a deferred execution     *)
(* does so once, closing with its CPIs.                                    *)
BySession(s, now) ==
    UNION {VaultSigns(s, x.key) : x \in {x \in s.sess : x.exp >= now}}

ByDeferred(s, now) ==
    UNION {VaultSigns([s EXCEPT !.defer = @ \ {e}], "anyone") :
              e \in {e \in s.defer : e >= now}}

(* CloseExpiredSession and ReclaimDeferred.                                *)
ByAnyone(s, now) ==
    {[s EXCEPT !.sess = @ \ {x}] : x \in {x \in s.sess : x.exp < now}}
    \cup {[s EXCEPT !.defer = @ \ {e}] : e \in {e \in s.defer : e < now}}

(* The passkey itself, which uses its wallet or clears it; it hands no one *)
(* else a right while its app is looking the wallet up.                    *)
ByPasskey(s) ==
    IF s.own # "intact" THEN {}
    ELSE LET signed == [s EXCEPT !.count = 1]
         IN  {signed}
             \cup {[signed EXCEPT !.auths = @ \ {y}] : y \in s.auths}
             \cup {[signed EXCEPT !.sess = @ \ {x}] : x \in s.sess}
             \cup {[signed EXCEPT !.grants = @ \ {g}] : g \in s.grants}

(* The wallet after one instruction at slot now.                           *)
After(s, now) ==
    IF ~s.alive THEN ByAnyone(s, now)
    ELSE ByAuthority(s, now) \cup BySession(s, now) \cup ByDeferred(s, now)
         \cup ByAnyone(s, now) \cup ByPasskey(s)

(* A slot with one transaction of one or two instructions, or none.        *)
Lands ==
    /\ slot < MaxSlot /\ txs < MaxTxs
    /\ \E one \in After(chain[slot], slot + 1) :
         \E s \in {one} \cup After(one, slot + 1) :
            chain' = [i \in 0 .. slot + 1 |-> IF i <= slot THEN chain[i] ELSE s]
    /\ slot' = slot + 1
    /\ txs' = txs + 1

SlotPasses ==
    /\ slot < MaxSlot
    /\ slot' = slot + 1
    /\ chain' = [i \in 0 .. slot + 1 |-> chain[IF i <= slot THEN i ELSE slot]]
    /\ UNCHANGED txs

ChainInit ==
    /\ slot = 0 /\ txs = 0
    /\ \E s \in FirstStates : chain = [i \in 0 .. 0 |-> s]

(* Nothing but the passkey and vouched keys can spend from the wallet.     *)
HeldAlone(s, now) ==
    /\ s.own = "intact"
    /\ s.plain
    /\ s.auths \subseteq Trusted
    /\ \A x \in s.sess : x.exp >= now => x.key \in Trusted
    /\ \A e \in s.defer : e < now
    /\ \A g \in s.grants : g.to \in Trusted
=============================================================================
