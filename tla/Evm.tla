-------------------------------- MODULE Evm --------------------------------
(***************************************************************************)
(* The frames of the EVM that verifies an eth_call (verifier/eth1/evm, the *)
(* default build with EVM_GAS).  What the opcodes compute on the stack and *)
(* the memory is in EvmWord; here every opcode that only computes is Data, *)
(* and the module is about what calls share: the accounts, which every     *)
(* frame copies lazily from its caller and merges back when it succeeds,   *)
(* the gas, the refund, and the list of logs.                              *)
(*                                                                         *)
(* The code of a contract is any sequence of opcodes.  A nested call runs  *)
(* on the C stack of its caller, so only the top frame takes steps.        *)
(***************************************************************************)
EXTENDS Integers, Sequences, FiniteSets, FiniteSetsExt

CONSTANTS Addr,        \* addresses of accounts
          Pre,         \* the subset of precompiled contracts
          New,         \* the address a CREATE computes
          Key,         \* storage keys
          EnvBalance,  \* [Addr -> Nat]: the proven balances
          EnvNonce,    \* [Addr -> Nat]
          EnvCode,     \* [Addr -> {"none", "code"}]
          EnvStorage,  \* [Addr -> [SUBSET Key -> Nat]]: the proven slots
          Known,       \* accounts the proof holds
          Root, From,  \* to and from of the call
          Gas,         \* gas of the call
          GasMod,      \* 2^64: the width of the gas counter
          DataCost,    \* what a computing opcode costs
          Values,      \* values written and sent
          CodeSizes,   \* lengths of returned data
          MaxOps,      \* bound: opcodes executed
          MaxDepth,    \* bound: nested frames
          MaxLogs      \* bound: logs written

VARIABLES frames,   \* <<root, ..., top>>: the nested evm_t
          next,     \* logs_t.next of every log cell; 0 is NULL, next[0] counts the cells
          freed,    \* log cells given back to the allocator
          status,   \* "start", "run", "done", or "crash": undefined behaviour
          ended,    \* how the last sub call ended
          ops       \* opcodes executed so far

vars == <<frames, next, freed, status, ended, ops>>

\* gas.h
G_SLOAD == 200
G_CALL == 700
G_CALLVALUE == 9000
G_CALLSTIPEND == 2300
G_NEWACCOUNT == 25000
G_CREATE == 32000
G_CODEDEPOSIT == 200
G_LOG == 375
G_LOGTOPIC == 375
G_SELFDESTRUCT == 5000
R_SELFDESTRUCT == 24000
EVM_MAX_CODE_SIZE == 24576
SSTORE == [noop |-> 200, init |-> 20000, clean |-> 5000, dirty |-> 200, clear |-> 15000,
           reset |-> 4800, resetClear |-> 19800]

NoSlots == [k \in {} |-> 0]

NewFrame(address, account, value, gas) ==
  [addr |-> address, acct |-> account, value |-> value, gas |-> gas, init |-> gas,
   refund |-> 0, txcreate |-> FALSE, nonce |-> 0, accounts |-> NoSlots, logs |-> 0,
   before |-> <<>>]

Has(fr, a) == a \in DOMAIN fr.accounts
WithAccount(fr, a, ac) == [fr EXCEPT !.accounts = [b \in DOMAIN @ \cup {a} |->
                                                     IF b = a THEN ac ELSE @[b]]]
EnvAccount(a) == [balance |-> EnvBalance[a], nonce |-> EnvNonce[a], code |-> EnvCode[a],
                  storage |-> NoSlots]
EnvEmpty(a) == EnvBalance[a] = 0 /\ EnvNonce[a] = 0 /\ EnvCode[a] = "none"

\* the nearest frame at or below i that satisfies P, 0 if there is none
Nearest(i, P(_)) == Max({0} \cup {j \in 1..i : P(j)})

(***************************************************************************)
(* evm_get_account: an account is looked up in the frame, then in its      *)
(* callers, then in the proof; every frame on the way keeps a copy of it   *)
(* without its storage.  "err" when the proof does not hold the account.   *)
(***************************************************************************)
GetAccount(fs, i, a, create) ==
  LET j  == Nearest(i, LAMBDA m : Has(fs[m], a))
      ac == IF j = 0 THEN EnvAccount(a) ELSE [fs[j].accounts[a] EXCEPT !.storage = NoSlots]
  IN  CASE j = 0 /\ a \notin Known -> [err |-> TRUE, found |-> FALSE, fs |-> fs]
        [] j = 0 /\ EnvEmpty(a) /\ ~create -> [err |-> FALSE, found |-> FALSE, fs |-> fs]
        [] OTHER -> [err |-> FALSE, found |-> TRUE,
                     fs |-> [m \in 1..Len(fs) |-> IF m \in (j+1)..i THEN WithAccount(fs[m], a, ac)
                                                                    ELSE fs[m]]]

SetSlot(fr, a, k, v) ==
  [fr EXCEPT !.accounts[a].storage = [q \in DOMAIN @ \cup {k} |-> IF q = k THEN v ELSE @[q]]]

EnvHasSlot(a, k) == a \in Known /\ k \in DOMAIN EnvStorage[a]

(***************************************************************************)
(* evm_get_storage: the same for a slot.  in3_get_env answers for the      *)
(* address of the frame that asks: a slot that is created is first read in *)
(* the root frame, so from the account of the root.  "crash" when that     *)
(* account has no such slot: its length is negative and the pointer never  *)
(* set.                                                                    *)
(***************************************************************************)
SlotOf(g, fs, i, a, k, create) ==
  LET j  == Nearest(i, LAMBDA m : Has(g.fs[m], a) /\ k \in DOMAIN g.fs[m].accounts[a].storage)
      mine == {m \in 1..i : fs[m].addr = a /\ EnvHasSlot(a, k) /\ EnvStorage[a][k] # 0}
      lo == CASE j # 0 -> j + 1 [] create -> 1 [] mine # {} -> Min(mine) [] OTHER -> i + 1
      v  == CASE j # 0 -> g.fs[j].accounts[a].storage[k]
              [] create /\ EnvHasSlot(fs[1].addr, k) -> EnvStorage[fs[1].addr][k]
              [] ~create /\ mine # {} -> EnvStorage[a][k]
              [] OTHER -> 0
  IN  IF g.err \/ ~g.found
      THEN [err |-> g.err, found |-> FALSE, crash |-> FALSE, fs |-> g.fs, val |-> 0]
      ELSE [err   |-> FALSE,
            found |-> j # 0 \/ lo <= i,
            crash |-> j = 0 /\ create /\ ~EnvHasSlot(fs[1].addr, k),
            fs    |-> [m \in 1..Len(fs) |-> IF m \in lo..i THEN SetSlot(g.fs[m], a, k, v)
                                                           ELSE g.fs[m]],
            val   |-> v]

GetStorage(fs, i, a, k, create) == SlotOf(GetAccount(fs, i, a, create), fs, i, a, k, create)

\* subgas on frame i
HasGas(fs, i, g) == fs[i].gas >= g
SubGas(fs, i, g) == [fs EXCEPT ![i].gas = @ - g]

(* Mutant: the receiver's balance is read before the sender's is changed. *)
MoveStaleBalance(fs, c, from, to, v) ==
  LET old == fs[c].accounts[to].balance
      less == [fs EXCEPT ![c].accounts[from].balance = @ - v]
  IN  [less EXCEPT ![c].accounts[to].balance = old + v]

\* from and to may be the same account
MoveBalance(fs, c, from, to, v) ==
  LET less == [fs EXCEPT ![c].accounts[from].balance = @ - v]
  IN  [less EXCEPT ![c].accounts[to].balance = @ + v]

(***************************************************************************)
(* transfer_value: the accounts change in frame c, the gas is paid by the  *)
(* frame p that calls it.                                                  *)
(***************************************************************************)
TransferValue(fs, c, p, from, to, v, baseGas, isCall) ==
  LET f == GetAccount(fs, c, from, TRUE)
      t == GetAccount(f.fs, c, to, FALSE)
      cost == (IF t.found THEN 0 ELSE G_NEWACCOUNT) + baseGas
      n == GetAccount(t.fs, c, to, TRUE)
      paid == SubGas(n.fs, p, cost)
  IN  CASE v = 0 -> [res |-> "ok", fs |-> fs]
        [] v # 0 /\ (f.err \/ t.err) -> [res |-> "env", fs |-> f.fs]
        [] v # 0 /\ ~f.err /\ ~t.err /\ ~HasGas(t.fs, p, cost) -> [res |-> "gas", fs |-> t.fs]
        [] OTHER ->
             IF paid[c].accounts[from].balance < v
             THEN [res |-> IF isCall THEN "ok" ELSE "balance", fs |-> paid]
             ELSE [res |-> "ok", fs |-> MoveBalance(paid, c, from, to, v)]

\* what a frame at depth i sees of an account and of a slot
SeenBalance(fs, i, a) ==
  LET j == Nearest(i, LAMBDA m : Has(fs[m], a))
  IN  IF j = 0 THEN EnvBalance[a] ELSE fs[j].accounts[a].balance
SeenNonce(fs, i, a) ==
  LET j == Nearest(i, LAMBDA m : Has(fs[m], a))
  IN  IF j = 0 THEN EnvNonce[a] ELSE fs[j].accounts[a].nonce
SeenSlot(fs, i, a, k) ==
  LET j == Nearest(i, LAMBDA m : Has(fs[m], a) /\ k \in DOMAIN fs[m].accounts[a].storage)
  IN  CASE j # 0 -> fs[j].accounts[a].storage[k]
        [] j = 0 /\ EnvHasSlot(a, k) -> EnvStorage[a][k]
        [] OTHER -> 0
Seen(fs, i) ==
  [balance |-> [a \in Addr |-> SeenBalance(fs, i, a)],
   nonce   |-> [a \in Addr |-> SeenNonce(fs, i, a)],
   slot    |-> [a \in Addr |-> [k \in Key |-> SeenSlot(fs, i, a, k)]]]

-----------------------------------------------------------------------------
(***************************************************************************)
(* Logs.  The cells of the list are numbered; walk[n] is the n-th cell     *)
(* from h, and a list of more than MaxLogs cells has a cycle.              *)
(***************************************************************************)
Walk(nx, h) == LET walk[n \in 0..(MaxLogs + 1)] ==
                     IF n = 0 THEN h ELSE IF walk[n-1] = 0 THEN 0 ELSE nx[walk[n-1]]
               IN  walk
Cyclic(nx, h) == Walk(nx, h)[MaxLogs + 1] # 0
Cells(nx, h)  == {Walk(nx, h)[n] : n \in 0..MaxLogs} \ {0}
LastCell(nx, h) == CHOOSE c \in Cells(nx, h) : nx[c] = 0

\* the list of src moved in front of the list of dst, as copy_state does
MovedLogs(nx, dst, src) ==
  IF src = 0 THEN nx ELSE [nx EXCEPT ![LastCell(nx, src)] = dst]

(***************************************************************************)
(* copy_state: the logs, the accounts and the slots of a frame that        *)
(* succeeded go to its caller.                                             *)
(***************************************************************************)
MergedAccount(mine, theirs) ==
  [theirs EXCEPT !.storage = [k \in DOMAIN mine.storage \cup DOMAIN @ |->
                                IF k \in DOMAIN @ THEN @[k] ELSE mine.storage[k]]]
CopyAccounts(p, c) ==
  [a \in DOMAIN p.accounts \cup DOMAIN c.accounts |->
     CASE ~Has(c, a) -> p.accounts[a]
       [] ~Has(p, a) -> c.accounts[a]
       [] OTHER -> MergedAccount(p.accounts[a], c.accounts[a])]
CopyState(p, c) == [p EXCEPT !.accounts = CopyAccounts(p, c),
                             !.logs = IF c.logs = 0 THEN @ ELSE c.logs]

\* finalize_and_refund_gas
Refunded(fs, i) ==
  LET f == fs[i]
      used == (f.init - f.gas) % GasMod
  IN  IF f.refund > 0 /\ i > 1
      THEN [fs EXCEPT ![i-1].gas = (@ - used) % GasMod, ![i-1].refund = @ + f.refund,
                      ![i].gas = (@ + used) % GasMod, ![i].refund = 0]
      ELSE [fs EXCEPT ![i].gas = (@ + Min({f.refund, used \div 2})) % GasMod]

\* op_create gives the creator a new nonce when its frame did not
CreatorNonce(fs, i, f) ==
  IF f.txcreate /\ fs[i-1].accounts[fs[i-1].addr].nonce = f.nonce
  THEN [fs EXCEPT ![i-1].accounts[fs[i-1].addr].nonce = @ + 1]
  ELSE fs

(* Mutant: a frame that was reverted is merged as well. *)
MergeReverted(res) == res \in {"ok", "reverted"}

\* the results for which finalize_subcall_gas copies the state
Merges(res) == res = "ok"

(***************************************************************************)
(* finalize_subcall_gas and evm_free: frame i ended with res ("ok",        *)
(* "reverted", or an error) and its caller goes on.                        *)
(***************************************************************************)
FinalizeSubcall(fs, i, res) ==
  LET f == fs[i]
      ok == res \in {"ok", "reverted"}
      up == IF Merges(res) THEN [fs EXCEPT ![i-1] = CopyState(@, f)] ELSE fs
      gas == CASE ok -> f.gas [] res = "balance" -> G_CALLSTIPEND [] OTHER -> 0
      back == [up EXCEPT ![i-1].gas = (@ + gas) % GasMod]
      kept == IF Merges(res) THEN 0 ELSE f.logs
  IN  IF (Merges(res) /\ Cyclic(next, f.logs)) \/ Cyclic(next, kept)
          \/ Cells(next, kept) \cap freed # {}
      THEN /\ status' = "crash"
           /\ UNCHANGED <<frames, next, freed, ended>>
      ELSE /\ frames' = SubSeq(CreatorNonce(back, i, f), 1, i - 1)
           /\ next' = IF Merges(res) THEN MovedLogs(next, fs[i-1].logs, f.logs) ELSE next
           /\ freed' = freed \cup Cells(next, kept)
           /\ status' = "run"
           /\ ended' = res

\* evm_call: the root frame ended, its receipt is written and it is freed
FinishRoot(fs, res) ==
  /\ frames' = fs
  /\ status' = IF Cyclic(next, fs[1].logs) \/ Cells(next, fs[1].logs) \cap freed # {}
               THEN "crash" ELSE "done"
  /\ ended' = res
  /\ UNCHANGED <<next, freed>>

Finish(fs, i, res) == IF i = 1 THEN FinishRoot(fs, res) ELSE FinalizeSubcall(fs, i, res)

(***************************************************************************)
(* The end of evm_run for frame i: state is how the loop stopped, len the  *)
(* length of the returned data.                                            *)
(***************************************************************************)
EndRun(fs, i, state, len) ==
  LET f == fs[i]
      create == f.txcreate /\ state = "stopped"
      deposited == [SubGas(fs, i, len * G_CODEDEPOSIT) EXCEPT ![i].accounts[f.acct].code = "code"]
      done == IF create THEN deposited ELSE fs
  IN  CASE state = "failed" -> Finish(fs, i, "failed")
        [] create /\ (len > EVM_MAX_CODE_SIZE \/ ~HasGas(fs, i, len * G_CODEDEPOSIT)) ->
             Finish(fs, i, "failed")
        [] OTHER -> Finish(Refunded(done, i), i, IF state = "reverted" THEN "reverted" ELSE "ok")

-----------------------------------------------------------------------------
Top == Len(frames)

Op == status = "run" /\ ops < MaxOps /\ ops' = ops + 1

\* an opcode whose gas the frame can not pay ends the frame
Fail(fs) == EndRun(fs, Top, "failed", 0)
Continue(fs) == frames' = fs /\ UNCHANGED <<next, freed, status, ended>>
Pay(cost, fs, Then(_)) == IF HasGas(fs, Top, cost) THEN Then(SubGas(fs, Top, cost)) ELSE Fail(fs)

Init ==
  /\ frames = <<NewFrame(Root, Root, 0, 0)>>
  /\ next = [n \in 0..MaxLogs |-> 0]
  /\ freed = {}
  /\ status = "start"
  /\ ended = "none"
  /\ ops = 0

\* evm_call: the value is transferred before the frame has any gas
EvmCall(v) ==
  LET t == TransferValue(frames, 1, 1, From, Root, v, 0, TRUE)
      fs == [t.fs EXCEPT ![1].gas = Gas, ![1].init = Gas, ![1].value = v]
  IN  /\ status = "start"
      /\ UNCHANGED ops
      /\ IF t.res # "ok" THEN FinishRoot(fs, t.res)
         ELSE frames' = fs /\ status' = "run" /\ UNCHANGED <<next, freed, ended>>

\* every opcode that only computes
Data == \E c \in DataCost : Op /\ Pay(c, frames, Continue)

Stop == Op /\ EndRun(frames, Top, "stopped", 0)
Return == \E n \in CodeSizes : Op /\ EndRun(frames, Top, "stopped", n)
Revert == Op /\ EndRun(frames, Top, "reverted", 0)
Invalid == Op /\ Fail(frames)
\* the loop of evm_run ends behind the last opcode with the state RUNNING
CodeEnds == Op /\ EndRun(frames, Top, "running", 0)

Sload(k) ==
  /\ Op
  /\ Pay(G_SLOAD, frames, LAMBDA fs :
       LET f == fs[Top]
           s == GetStorage(fs, Top, f.acct, k, FALSE)
       IN  IF s.err \/ (~s.found /\ ~EnvHasSlot(f.addr, k)) THEN Fail(s.fs) ELSE Continue(s.fs))

\* the gas for storing v over the value val of a slot that had the value original
SstoreCost(v, val, original, orig) ==
  CASE v = val -> SSTORE.noop
    [] v # val /\ original = val -> (IF orig THEN 0 ELSE SSTORE.init) + SSTORE.clean
    [] OTHER -> SSTORE.dirty

SstoreRefund(v, val, original, orig, cleared) ==
  CASE v = val -> 0
    [] v # val /\ original = val -> IF v = 0 THEN SSTORE.clear ELSE 0
    [] OTHER -> (IF orig /\ ~cleared THEN SSTORE.clear ELSE 0)
                + (IF v # original THEN 0
                   ELSE IF orig THEN SSTORE.reset ELSE SSTORE.resetClear)

(***************************************************************************)
(* op_sstore under CONSTANTINOPL.  The charge for a dirty slot that was    *)
(* cleared before is taken from the gas without looking whether there is   *)
(* enough.                                                                 *)
(***************************************************************************)
Sstore(k, v) ==
  \E s0 \in {GetStorage(frames, Top, frames[Top].acct, k, FALSE)} :
  \E s \in {IF s0.found \/ s0.err THEN s0
           ELSE GetStorage(s0.fs, Top, frames[Top].acct, k, TRUE)} :
    LET f == frames[Top]
        orig == EnvHasSlot(f.addr, k)
        original == IF orig THEN EnvStorage[f.addr][k] ELSE 0
        cleared == v # s.val /\ original # s.val /\ orig /\ (~s0.found \/ s.val = 0)
        fs == [s.fs EXCEPT ![Top].refund = @ + SstoreRefund(v, s.val, original, orig, cleared),
                           ![Top].gas = IF cleared THEN (@ - SSTORE.clear) % GasMod ELSE @]
    IN  /\ Op
        /\ CASE s.crash -> status' = "crash" /\ UNCHANGED <<frames, next, freed, ended>>
             [] s.err -> Fail(s.fs)
             [] OTHER -> Pay(SstoreCost(v, s.val, original, orig), fs,
                             LAMBDA gs : Continue([gs EXCEPT ![Top] = SetSlot(@, f.acct, k, v)]))

(***************************************************************************)
(* op_selfdestruct: the storage is only dropped from the copy of the       *)
(* account that this frame holds.                                          *)
(***************************************************************************)
Selfdestruct(to) ==
  LET i == Top
      self == frames[i].addr
  IN  /\ Op
      /\ Pay(G_SELFDESTRUCT, frames, LAMBDA fs :
           LET g == GetAccount(fs, i, self, TRUE)
               r == [g.fs EXCEPT ![i].refund = @ + R_SELFDESTRUCT]
               balance == r[i].accounts[self].balance
               t == GetAccount(r, i, to, FALSE)
               new == IF t.found THEN 0 ELSE G_NEWACCOUNT
               m == TransferValue(SubGas(GetAccount(t.fs, i, to, TRUE).fs, i, new), i,
                                  IF i = 1 THEN 1 ELSE i - 1, self, to, balance, 0, FALSE)
               moved == IF balance = 0 THEN [res |-> "ok", fs |-> r] ELSE m
               dead == [moved.fs EXCEPT ![i].accounts[self] =
                          [balance |-> 0, nonce |-> 0, code |-> "none", storage |-> NoSlots]]
           IN  CASE g.err -> Fail(fs)
                 [] ~g.err /\ balance # 0 /\ (t.err \/ ~HasGas(t.fs, i, new)) -> Fail(t.fs)
                 [] OTHER -> IF moved.res # "ok" THEN Fail(moved.fs)
                             ELSE EndRun(dead, i, "stopped", 0))

\* op_log: the new cell points to the logs of the root and replaces those of the frame
Log ==
  LET n == next[0] + 1 IN
    /\ n <= MaxLogs
    /\ Op
    /\ Pay(G_LOG + G_LOGTOPIC, frames, LAMBDA fs :
         /\ frames' = [fs EXCEPT ![Top].logs = n]
         /\ next' = [next EXCEPT ![n] = fs[1].logs, ![0] = n]
         /\ UNCHANGED <<freed, status, ended>>)

(***************************************************************************)
(* evm_sub_call with the address set: CALL, CALLCODE, DELEGATECALL and     *)
(* STATICCALL.  fs has the child as its last frame, res what was found     *)
(* before it runs.  The static flag is set and read nowhere.               *)
(***************************************************************************)
StartChild(fs, c, res, gaslimit) ==
  LET p == fs[c-1]
      given == Min({gaslimit, p.gas - (p.gas \div 64)})
      started == [fs EXCEPT ![c].gas = @ + given, ![c].init = given, ![c-1].gas = @ - given]
  IN  IF res = "ok" THEN started ELSE [fs EXCEPT ![c].gas = @ + given, ![c].init = given]

RunChild(fs, c, res, code, isPre) ==
  CASE res # "ok" -> Finish(fs, c, res)
    [] res = "ok" /\ isPre ->
         \E ok \in BOOLEAN : Finish(fs, c, IF ok THEN "ok" ELSE "failed")
    [] res = "ok" /\ ~isPre /\ code = "none" -> EndRun(fs, c, "running", 0)
    [] OTHER -> frames' = fs /\ UNCHANGED <<next, freed, status, ended>>

Modes == {"call", "callcode", "delegate", "static"}

OpCall(mode, to, v, gaslimit) ==
  LET i == Top
      c == i + 1
  IN  /\ c <= MaxDepth
      /\ Op
      /\ Pay(G_CALL, frames, LAMBDA fs :
           LET f == fs[i]
               address == IF mode \in {"call", "static"} THEN to ELSE f.addr
               account == CASE mode = "callcode" -> address [] mode = "delegate" -> f.acct
                            [] OTHER -> to
               value == CASE mode = "delegate" -> f.value [] mode = "static" -> 0 [] OTHER -> v
               xfer  == mode \in {"call", "callcode"} /\ value # 0
               child == [NewFrame(address, account, value, 0) EXCEPT
                           !.before = Seen(fs, i),
                           !.gas = IF xfer THEN G_CALLSTIPEND ELSE 0]
               ac == GetAccount(Append(fs, child), i, to, FALSE)
               code == IF ac.found THEN ac.fs[i].accounts[to].code ELSE EnvCode[to]
               t == TransferValue(ac.fs, c, i, f.addr, address, value,
                                  IF xfer THEN G_CALLVALUE ELSE 0, FALSE)
               res == IF ac.err THEN "env" ELSE t.res
               run == StartChild(IF ac.err THEN ac.fs ELSE t.fs, c, res, gaslimit)
           IN  RunChild(run, c, res, code, to \in Pre))

(***************************************************************************)
(* op_create: evm_sub_call without an address.  evm_create_account gives   *)
(* the new account the nonce 1 and the creator the next one, both in the   *)
(* frame of the new contract.                                              *)
(***************************************************************************)
Create(v) ==
  LET i == Top
      c == i + 1
  IN  /\ c <= MaxDepth
      /\ Op
      /\ Pay(G_CREATE, frames, LAMBDA fs :
           LET self == fs[i].addr
               g == GetAccount(fs, i, self, TRUE)
               child == [NewFrame(New, New, v, 0) EXCEPT
                           !.before = Seen(fs, i), !.txcreate = TRUE,
                           !.nonce = g.fs[i].accounts[self].nonce]
               n == GetAccount(Append(g.fs, child), c, New, TRUE)
               s == GetAccount(n.fs, c, self, TRUE)
               named == [s.fs EXCEPT ![c].accounts[New].nonce = 1,
                                     ![c].accounts[self].nonce = @ + 1]
               t == TransferValue(named, c, i, self, New, v, 0, FALSE)
           IN  CASE g.err -> Fail(fs)
                 [] ~g.err /\ n.err ->
                      Finish(StartChild(Append(g.fs, child), c, "env", GasMod), c, "env")
                 [] OTHER -> RunChild(StartChild(t.fs, c, t.res, GasMod), c, t.res, "code", FALSE))

Next ==
  \/ \E v \in Values : EvmCall(v)
  \/ Data
  \/ Stop
  \/ Return
  \/ Revert
  \/ Invalid
  \/ CodeEnds
  \/ \E k \in Key : Sload(k)
  \/ \E k \in Key, v \in Values : Sstore(k, v)
  \/ \E a \in Addr : Selfdestruct(a)
  \/ Log
  \/ \E m \in Modes, a \in Addr, v \in Values, g \in {Gas} : OpCall(m, a, v, g)
  \/ \E v \in Values : Create(v)

Spec == Init /\ [][Next]_vars

-----------------------------------------------------------------------------
(***************************************************************************)
(* No step of any contract makes ether: what the running frame sees of all *)
(* balances together is never more than what the proof holds, through      *)
(* transfers, creations, self destruction and calls that are rolled back.  *)
(* (A contract that destroys itself in its own favour burns its balance.)  *)
(***************************************************************************)
NoEtherFromNothing ==
  status # "crash" =>
    MapThenSumSet(LAMBDA a : SeenBalance(frames, Top, a), Addr)
      <= MapThenSumSet(LAMBDA a : EnvBalance[a], Addr)

(***************************************************************************)
(* evm_sub_call: after a call that was reverted or that failed its caller  *)
(* sees the balances and nonces it saw before, but for the nonce that a    *)
(* CREATE costs its creator either way.                                    *)
(***************************************************************************)
CallEnds == Len(frames') < Len(frames) /\ ended' # "ok"
BalancesKept ==
  CallEnds =>
       LET f == frames[Top]
           seen == Seen(frames', Top - 1)
       IN  /\ seen.balance = f.before.balance
           /\ \A a \in Addr : seen.nonce[a] = f.before.nonce[a]
                              \/ (f.txcreate /\ a = frames[Top-1].addr
                                  /\ seen.nonce[a] = f.before.nonce[a] + 1)

(***************************************************************************)
(* evm.h:50, EVM_STATE_REVERTED: "stopped, but results must be reverted":  *)
(* after a call that was reverted its caller finds in every slot what was  *)
(* there before the call.                                                  *)
(***************************************************************************)
StorageIsRolledBack ==
  [][Len(frames') < Len(frames) /\ ended' = "reverted"
       => Seen(frames', Top - 1).slot = frames[Top].before.slot]_vars
=============================================================================
