----------------------------- MODULE ActionCodec -----------------------------
(***************************************************************************)
(* A list of actions, byte by byte, from the client that asks for it to    *)
(* the client that reads it back.                                          *)
(*                                                                         *)
(* Either SDK serialises the list (the kit with struct encoders, the       *)
(* legacy one by writing at offsets); the program parses and validates the *)
(* buffer and stores it behind the header of a session, or behind the key  *)
(* material of a Delegate's authority; Execute reads the limits and writes *)
(* the counters in place; the SDKs decode the account.  No two of the five *)
(* share a definition of the layout: they agree by convention only, and    *)
(* the book, kept in numbers, says what the granter asked for and what has *)
(* been used of it.                                                        *)
(*                                                                         *)
(* Widths are the code's.  A public key is thirty-two times one byte, and  *)
(* a u64 whose high bytes are not zero reads as Huge.                      *)
(***************************************************************************)
EXTENDS Integers, Sequences, FiniteSets, SequencesExt

CONSTANTS
    Lists,              \* bound: the lists of actions a granter may ask for
    Assets,             \* mints, as the byte their address is made of
    Programs,           \* programs an inner instruction may name, as bytes
    Amounts,            \* bound: what one Execute may take out
    Slots,              \* bound: the slots Executes land in
    MaxSpends           \* bound: Executes after the grant

Lamports == 0           \* the vault's lamports, as an asset
Huge == 2 ^ 24          \* any u64 of more than three bytes
WalletKey == 77         \* the wallet's address, as a byte
HolderKey == 78         \* the session key, or the authority's key material

SolLimit == 1
SolRecurringLimit == 2
SolMaxPerTx == 3
TokenLimit == 4
TokenRecurringLimit == 5
TokenMaxPerTx == 6
ProgramWhitelist == 10
ProgramBlacklist == 11
SolTypes == {SolLimit, SolRecurringLimit, SolMaxPerTx}
TokenTypes == {TokenLimit, TokenRecurringLimit, TokenMaxPerTx}
ProgramTypes == {ProgramWhitelist, ProgramBlacklist}
Types == SolTypes \cup TokenTypes \cup ProgramTypes

ACTION_HEADER_SIZE == 11
MAX_ACTIONS == 16
MAX_ACTIONS_BUFFER_SIZE == 2048
SESSION_HEADER_SIZE == 80
AUTHORITY_ED25519_FIXED_LEN == 48 + 32
AUTHORITY_SECP256R1_FIXED_LEN == 48 + 32 + 33 + 32

VARIABLES
    account,    \* the session's or the authority's bytes; none before the grant
    asked,      \* the list the granter asked for
    book,       \* observer: that list, with what has been used of it
    refused,    \* the program has refused the list
    slot,       \* the Clock sysvar
    spends      \* Executes so far

vars == <<account, asked, book, refused, slot, spends>>

-----------------------------------------------------------------------------
(* Bytes. *)

U16(n) == <<n % 256, (n \div 256) % 256>>
U64(n) == [i \in 1 .. 8 |-> IF i > 3 THEN 0 ELSE (n \div (256 ^ (i - 1))) % 256]
Bytes(n, b) == [i \in 1 .. n |-> b]
Pubkey(b) == Bytes(32, b)
At(buf, off, n) == SubSeq(buf, off + 1, off + n)

Put(buf, off, bytes) ==
    [i \in DOMAIN buf |-> IF i - off \in DOMAIN bytes THEN bytes[i - off] ELSE buf[i]]

readU16LE(buf, off) == buf[off + 1] + 256 * buf[off + 2]

read_u64(buf, off) ==
    IF \E i \in 4 .. 8 : buf[off + i] # 0 THEN Huge
    ELSE buf[off + 1] + 256 * buf[off + 2] + 65536 * buf[off + 3]

-----------------------------------------------------------------------------
(* The SDKs' encoders.  An action is its type, the mint or program it      *)
(* names, its amount (remaining, limit or max), its window and, perhaps,   *)
(* an expiry of its own.                                                   *)

Actions(amounts, windows, expiries) ==
    [type: SolTypes \ {SolRecurringLimit}, key: {Lamports}, limit: amounts, window: {0},
     expiresAt: expiries]
    \cup [type: {SolRecurringLimit}, key: {Lamports}, limit: amounts, window: windows,
          expiresAt: expiries]
    \cup [type: TokenTypes \ {TokenRecurringLimit}, key: Assets \ {Lamports},
          limit: amounts, window: {0}, expiresAt: expiries]
    \cup [type: {TokenRecurringLimit}, key: Assets \ {Lamports}, limit: amounts,
          window: windows, expiresAt: expiries]
    \cup [type: ProgramTypes, key: Programs, limit: {0}, window: {0},
          expiresAt: expiries]

recurringLimitData(a) == U64(a.limit) \o U64(0) \o U64(a.window) \o U64(0)

encodeActionData(a) ==
    (IF a.type \in SolTypes THEN <<>> ELSE Pubkey(a.key))
    \o (IF a.type \in ProgramTypes THEN <<>>
        ELSE IF a.type \in {SolRecurringLimit, TokenRecurringLimit}
             THEN recurringLimitData(a)
             ELSE U64(a.limit))

\* Where each field goes in the buffer of that size.
serializeActionData(a) ==
    CASE a.type \in {SolLimit, SolMaxPerTx} -> Put(Bytes(8, 0), 0, U64(a.limit))
      [] a.type = SolRecurringLimit ->
           Put(Put(Bytes(32, 0), 0, U64(a.limit)), 16, U64(a.window))
      [] a.type \in {TokenLimit, TokenMaxPerTx} ->
           Put(Put(Bytes(40, 0), 0, Pubkey(a.key)), 32, U64(a.limit))
      [] a.type = TokenRecurringLimit ->
           Put(Put(Put(Bytes(64, 0), 0, Pubkey(a.key)), 32, U64(a.limit)), 48, U64(a.window))
      [] a.type \in ProgramTypes -> Pubkey(a.key)

Encoded(sdk, a) ==
    IF sdk = "kit" THEN encodeActionData(a) ELSE serializeActionData(a)

\* expiresAt is optional: a set of at most one slot, written as 0 when absent.
header(a, len) ==
    <<a.type>> \o U16(len)
    \o U64(IF a.expiresAt = {} THEN 0 ELSE CHOOSE s \in a.expiresAt : TRUE)

serializeActions(sdk, as) ==
    FlattenSeq([i \in DOMAIN as |->
        header(as[i], Len(Encoded(sdk, as[i]))) \o Encoded(sdk, as[i])])

-----------------------------------------------------------------------------
(* The program's parser and its validation. *)

expected_data_size(type) ==
    CASE type \in {SolLimit, SolMaxPerTx} -> 8
      [] type \in {SolRecurringLimit, ProgramWhitelist, ProgramBlacklist} -> 32
      [] type \in {TokenLimit, TokenMaxPerTx} -> 40
      [] type = TokenRecurringLimit -> 64

\* The offsets the actions of buf start at, in order, and where the last one ends;
\* the walk stops at a header or at data the buffer is too short for.
Cursors(buf) ==
    LET walk[c \in 0 .. Len(buf)] ==
          LET next == c + ACTION_HEADER_SIZE + readU16LE(buf, c + 1)
          IN  IF c + ACTION_HEADER_SIZE > Len(buf) THEN <<c>>
              ELSE IF next > Len(buf) THEN <<c, next>>
              ELSE <<c>> \o walk[next]
    IN  walk[0]

\* The walk ends exactly at the end of the buffer, or parsing fails.
Parses(buf) ==
    LET cs == Cursors(buf)
    IN  /\ Last(cs) = Len(buf)
        /\ Len(cs) - 1 <= MAX_ACTIONS
        /\ \A i \in 1 .. Len(cs) - 1 : buf[cs[i] + 1] \in Types

\* One view per action: its type, its expiry and where its data is.
parse_actions(buf) ==
    LET View(c) == [action_type |-> buf[c + 1], expires_at |-> read_u64(buf, c + 3),
                    data_offset |-> c + ACTION_HEADER_SIZE, data_len |-> readU16LE(buf, c + 1)]
        cs == Cursors(buf)
    IN  [i \in 1 .. Len(cs) - 1 |-> View(cs[i])]

validate_actions_buffer(buf) ==
    buf # <<>> =>
      /\ Parses(buf)
      /\ LET vs == parse_actions(buf)
             Of(types) == {i \in DOMAIN vs : vs[i].action_type \in types}
             KeyAt(i) == At(buf, vs[i].data_offset, 32)
             Field(i, k) == read_u64(buf, vs[i].data_offset
                                + (IF i \in Of(TokenTypes) THEN 32 ELSE 0) + 8 * k)
         IN  /\ \A i \in DOMAIN vs : vs[i].data_len = expected_data_size(vs[i].action_type)
             /\ Of({ProgramWhitelist}) = {} \/ Of({ProgramBlacklist}) = {}
             /\ \A t \in SolTypes : Cardinality(Of({t})) <= 1
             /\ \A t \in TokenTypes : \A i, j \in Of({t}) : i < j => KeyAt(i) # KeyAt(j)
             /\ \A i \in Of({SolRecurringLimit, TokenRecurringLimit}) :
                  Field(i, 1) = 0 /\ Field(i, 2) > 0 /\ Field(i, 3) = 0

-----------------------------------------------------------------------------
(* The accounts the buffer is stored in: CreateSession and AddAuthority.   *)

SessionHeader(expires) ==
    <<35, 0, 1>> \o Bytes(5, 0) \o Pubkey(WalletKey) \o Pubkey(HolderKey) \o U64(expires)

AuthorityHeader(type, policyLen) ==
    <<34, type, 2, 0, 1>> \o Bytes(3, 0) \o Bytes(4, 0) \o U16(policyLen) \o Bytes(2, 0)
    \o Pubkey(WalletKey)

authority_fixed_len(type) ==
    IF type = 0 THEN AUTHORITY_ED25519_FIXED_LEN ELSE AUTHORITY_SECP256R1_FIXED_LEN

Account(holder, buf) ==
    CASE holder = "session" -> SessionHeader(900) \o buf
      [] holder = "ed25519" -> AuthorityHeader(0, Len(buf))
                               \o Bytes(authority_fixed_len(0) - 48, HolderKey) \o buf
      [] holder = "secp256r1" -> AuthorityHeader(1, Len(buf))
                                 \o Bytes(authority_fixed_len(1) - 48, HolderKey) \o buf

PolicyLocation(data) ==
    IF data[1] = 35 THEN SESSION_HEADER_SIZE ELSE authority_fixed_len(data[2])

Policy(data) == At(data, PolicyLocation(data), Len(data) - PolicyLocation(data))

-----------------------------------------------------------------------------
(* Execute's limits: the checks and the writes, at the offsets of the      *)
(* bytes.                                                                  *)

Views(data) == ToSet(parse_actions(Policy(data)))
is_expired(v, now) == v.expires_at # 0 /\ now > v.expires_at
Abs(data, v) == PolicyLocation(data) + v.data_offset
Names(data, v, key) == At(data, Abs(data, v), 32) = Pubkey(key)
AmountOffset(data, v) == Abs(data, v) + (IF v.action_type \in TokenTypes THEN 32 ELSE 0)
Limit(data, v) == read_u64(data, AmountOffset(data, v))
Spent(data, v) == read_u64(data, AmountOffset(data, v) + 8)
Window(data, v) == read_u64(data, AmountOffset(data, v) + 16)
LastReset(data, v) == read_u64(data, AmountOffset(data, v) + 24)
SatSub(m, n) == IF m > n THEN m - n ELSE 0

\* The actions that bound an asset: any SOL action, or a token action of its mint.
Bounding(data, views, asset) ==
    {v \in views :
        IF asset = Lamports THEN v.action_type \in SolTypes
        ELSE v.action_type \in TokenTypes /\ Names(data, v, asset)}

Reset(data, v, now) == SatSub(now, LastReset(data, v)) > Window(data, v)

Within(data, v, amount, now) ==
    /\ ~is_expired(v, now)
    /\ IF v.action_type \in {SolRecurringLimit, TokenRecurringLimit}
       THEN (IF Reset(data, v, now) THEN 0 ELSE Spent(data, v)) + amount <= Limit(data, v)
       ELSE amount <= Limit(data, v)

names_program(data, views, type, program, now) ==
    \E v \in views :
        v.action_type = type /\ ~is_expired(v, now) /\ Names(data, v, program)

Allows(data, program, asset, amount, now) ==
    Policy(data) # <<>> =>
      LET views == Views(data)
      IN  /\ (\E v \in views : v.action_type = ProgramWhitelist)
                => names_program(data, views, ProgramWhitelist, program, now)
          /\ ~names_program(data, views, ProgramBlacklist, program, now)
          /\ Bounding(data, views, asset) # {}
          /\ \A v \in Bounding(data, views, asset) : Within(data, v, amount, now)

\* Mutant: the counters of a token action are written where a SOL action's are.
Charged_SolOffsets(data, v, amount, now) ==
    LET off == Abs(data, v)
    IN  IF v.action_type \in {SolLimit, TokenLimit}
        THEN Put(data, AmountOffset(data, v), U64(SatSub(Limit(data, v), amount)))
        ELSE IF v.action_type \notin {SolRecurringLimit, TokenRecurringLimit} THEN data
        ELSE IF Reset(data, v, now)
             THEN Put(Put(data, off + 8, U64(amount)), off + 24, U64(now))
             ELSE Put(data, off + 8, U64(Spent(data, v) + amount))

Charged(data, v, amount, now) ==
    LET off == AmountOffset(data, v)
    IN  IF v.action_type \in {SolLimit, TokenLimit}
        THEN Put(data, off, U64(SatSub(Limit(data, v), amount)))
        ELSE IF v.action_type \notin {SolRecurringLimit, TokenRecurringLimit} THEN data
        ELSE IF Reset(data, v, now)
             THEN Put(Put(data, off + 8, U64(amount)), off + 24, U64(now))
             ELSE Put(data, off + 8, U64(Spent(data, v) + amount))

ChargedAll(data, asset, amount, now) ==
    LET Step(d, v) == IF v \in Bounding(data, Views(data), asset) THEN Charged(d, v, amount, now) ELSE d
    IN  FoldLeft(Step, data, parse_actions(Policy(data)))

-----------------------------------------------------------------------------
(* The SDKs' readers. *)

\* parseActions (legacy): type, expiry, and the fields it takes from the data.
parseActions(buf) ==
    LET cs == Cursors(buf) IN
    [i \in 1 .. Len(cs) - 1 |->
        LET c == cs[i]
            d == c + ACTION_HEADER_SIZE
            t == buf[c + 1]
            u == IF t \in TokenTypes THEN d + 32 ELSE d
            recurring == t \in {SolRecurringLimit, TokenRecurringLimit}
        IN  [type |-> t, expiresAt |-> read_u64(buf, c + 3),
             key |-> IF t \in SolTypes THEN {} ELSE {At(buf, d, 32)},
             limit |-> IF t \in ProgramTypes THEN {} ELSE {read_u64(buf, u)},
             spent |-> IF recurring THEN {read_u64(buf, u + 8)} ELSE {},
             window |-> IF recurring THEN {read_u64(buf, u + 16)} ELSE {},
             lastReset |-> IF recurring THEN {read_u64(buf, u + 24)} ELSE {}]]

decodeAuthorityAccount(data) ==
    [authorityType |-> data[2], role |-> data[3], version |-> data[5],
     policyLen |-> readU16LE(data, 12), wallet |-> At(data, 16, 32)]

AuthorityFromBuffer(data) ==
    [authorityType |-> data[2], role |-> data[3], version |-> data[5],
     policyLen |-> readU16LE(data, 12), wallet |-> At(data, 16, 32)]

decodeSessionAccount(data) ==
    [version |-> data[3], wallet |-> At(data, 8, 32), sessionKey |-> At(data, 40, 32),
     expiresAt |-> read_u64(data, 72)]

SessionFromBuffer(data) ==
    [version |-> data[3], wallet |-> At(data, 8, 32), sessionKey |-> At(data, 40, 32),
     expiresAt |-> read_u64(data, 72)]

\* Where parseActions' documentation says the buffer is, by the decoded header.
ReadBack(data) ==
    IF data[1] = 35 THEN parseActions(At(data, 80, Len(data) - 80))
    ELSE parseActions(At(data, IF AuthorityFromBuffer(data).authorityType = 0 THEN 80 ELSE 145,
                         AuthorityFromBuffer(data).policyLen))

-----------------------------------------------------------------------------
(* The book: the same in numbers. *)

Fresh(a) ==
    [type |-> a.type, key |-> a.key, limit |-> a.limit, window |-> a.window,
     expiresAt |-> IF a.expiresAt = {} THEN 0 ELSE CHOOSE s \in a.expiresAt : TRUE,
     spent |-> 0, lastReset |-> 0]

Bounds(e, asset) == e.type \in SolTypes \cup TokenTypes /\ e.key = asset
Live(e, now) == e.expiresAt = 0 \/ now <= e.expiresAt
Recurs(e) == e.type \in {SolRecurringLimit, TokenRecurringLimit}
Elapsed(e, now) == now - e.lastReset > e.window

Granted(program, asset, amount, now) ==
    LET es == ToSet(book)
        Listed(type) == {e \in es : e.type = type /\ e.key = program /\ Live(e, now)}
    IN  book # <<>> =>
          /\ (\E e \in es : e.type = ProgramWhitelist) => Listed(ProgramWhitelist) # {}
          /\ Listed(ProgramBlacklist) = {}
          /\ \E e \in es : Bounds(e, asset)
          /\ \A e \in es : Bounds(e, asset) =>
               /\ Live(e, now)
               /\ amount + (IF Recurs(e) /\ ~Elapsed(e, now) THEN e.spent ELSE 0) <= e.limit

Used(e, asset, amount, now) ==
    IF ~Bounds(e, asset) THEN e
    ELSE IF e.type \in {SolLimit, TokenLimit} THEN [e EXCEPT !.limit = @ - amount]
    ELSE IF ~Recurs(e) THEN e
    ELSE IF Elapsed(e, now) THEN [e EXCEPT !.spent = amount, !.lastReset = now]
    ELSE [e EXCEPT !.spent = @ + amount]

\* A list the program's documentation allows: no program list of both kinds, one
\* action of a kind for SOL and for each mint, a window in every recurring one.
WellFormed(as) ==
    /\ Len(as) <= MAX_ACTIONS
    /\ ~\E i, j \in DOMAIN as :
          as[i].type = ProgramWhitelist /\ as[j].type = ProgramBlacklist
    /\ \A i, j \in DOMAIN as :
          (i < j /\ as[i].type \in SolTypes \cup TokenTypes)
            => <<as[i].type, as[i].key>> # <<as[j].type, as[j].key>>
    /\ \A i \in DOMAIN as : Recurs(as[i]) => as[i].window > 0

-----------------------------------------------------------------------------
Init ==
    /\ account = <<>> /\ asked = <<>> /\ book = <<>> /\ refused = FALSE
    /\ slot = 0 /\ spends = 0

\* The granter's client serialises the list and sends it with its length; the
\* program takes that many bytes of it, validates them and writes the account.
Grant(sdk, holder, as) ==
    LET buf == serializeActions(sdk, as)
        sent == U16(Len(buf)) \o buf
        taken == At(sent, 2, readU16LE(sent, 0))
        ok == Len(taken) <= MAX_ACTIONS_BUFFER_SIZE /\ validate_actions_buffer(taken)
    IN  /\ account = <<>> /\ ~refused
        /\ as = <<>> => holder = "session"    \* unrestricted: true
        /\ asked' = as
        /\ refused' = ~ok
        /\ account' = IF ok THEN Account(holder, taken) ELSE <<>>
        /\ book' = IF ok THEN [i \in DOMAIN as |-> Fresh(as[i])] ELSE <<>>
        /\ UNCHANGED <<slot, spends>>

\* An Execute through program takes amount of asset out of the vault.
Execute(program, asset, amount, now) ==
    /\ account # <<>> /\ spends < MaxSpends /\ now >= slot
    /\ Allows(account, program, asset, amount, now)
    /\ account' = IF Policy(account) = <<>> THEN account
                  ELSE ChargedAll(account, asset, amount, now)
    /\ book' = [i \in DOMAIN book |-> Used(book[i], asset, amount, now)]
    /\ slot' = now /\ spends' = spends + 1
    /\ UNCHANGED <<asked, refused>>

Next ==
    \/ \E sdk \in {"kit", "legacy"}, holder \in {"session", "ed25519", "secp256r1"},
          as \in Lists : Grant(sdk, holder, as)
    \/ \E program \in Programs, asset \in Assets, amount \in Amounts, now \in Slots :
          Execute(program, asset, amount, now)

Spec == Init /\ [][Next]_vars

-----------------------------------------------------------------------------
(* Properties. *)

\* What a book entry is when it is read back field by field.
Shown(e) ==
    [type |-> e.type, expiresAt |-> e.expiresAt,
     key |-> IF e.type \in SolTypes THEN {} ELSE {Pubkey(e.key)},
     limit |-> IF e.type \in ProgramTypes THEN {} ELSE {e.limit},
     spent |-> IF Recurs(e) THEN {e.spent} ELSE {},
     window |-> IF Recurs(e) THEN {e.window} ELSE {},
     lastReset |-> IF Recurs(e) THEN {e.lastReset} ELSE {}]

\* A client that decodes the account and parses its actions reads every action
\* that was asked for, in order, with exactly what has been used of it; the
\* header still says whose wallet it is.
ReadsBackWhatIsHeld ==
    account # <<>> =>
      /\ ReadBack(account) = [i \in DOMAIN book |-> Shown(book[i])]
      /\ IF account[1] = 35
         THEN /\ decodeSessionAccount(account) = SessionFromBuffer(account)
              /\ decodeSessionAccount(account).wallet = Pubkey(WalletKey)
              /\ decodeSessionAccount(account).expiresAt = 900
         ELSE /\ decodeAuthorityAccount(account) = AuthorityFromBuffer(account)
              /\ decodeAuthorityAccount(account).wallet = Pubkey(WalletKey)
              /\ (decodeAuthorityAccount(account).policyLen > 0) = (book # <<>>)

\* Execute, reading limits and counters out of the bytes, decides about every
\* next outflow as the asked-for list and what has been used of it would.
DecidesByTheBook ==
    account # <<>> =>
      \A program \in Programs, asset \in Assets, amount \in Amounts, now \in Slots :
        now >= slot =>
          (Allows(account, program, asset, amount, now) <=> Granted(program, asset, amount, now))

\* validate_actions_buffer refuses a buffer an SDK serialised only for what the
\* list asks, never for how it is encoded.
RefusedForTheListOnly == asked # <<>> => (refused <=> ~WellFormed(asked))

\* The bytes mean one thing to everybody who knows their layout: whichever SDK
\* serialised the list, wherever the program stored it and whatever Executes
\* have used of it, the program refuses it, Execute decides by it and the SDKs
\* read it back as the list that was asked for would have it.
BytesMeanWhatWasAsked == ReadsBackWhatIsHeld /\ DecidesByTheBook /\ RefusedForTheListOnly
=============================================================================
