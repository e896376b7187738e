--------------------------- MODULE AccountsProofs ---------------------------
(***************************************************************************)
(* Proofs about Accounts: the invariants of the account records, and that  *)
(* no failure makes the program forget a password.                         *)
(***************************************************************************)
EXTENDS Accounts, TLAPS

\* What the invariants say of one account's record.
Good(r) ==
    /\ r \in Account
    /\ r.disconnect_timeout => Live(r)
    /\ r.keepalive <=> r.state = "connected"
    /\ r.timeout => r.delay > 0
    /\ r.wants_to_die => /\ Live(r)
                         /\ r.purpose = "register" \/ r.disconnect_timeout
    /\ r.current_error = "fatal" => ~r.timeout
    /\ ~r.listed => /\ r.delay = 0 /\ ~r.timeout /\ r.request = "none"
                    /\ Live(r) => r.wants_to_die

\* Nothing is good.
LEMMA NoAccountGood == Good(NoAccount)
BY DelayAssumption DEF Good, NoAccount, Account, Live

\* _purple_connection_destroy keeps a record good.
LEMMA DestroyedGood ==
    ASSUME NEW r, Good(r), r.listed
    PROVE  /\ Good(Destroyed(r)) /\ Destroyed(r).listed
           /\ ~Live(Destroyed(r))
BY DEF Good, Account, Destroyed, Live

\* Goodness does not depend on the password.
LEMMA PasswordChangeGood ==
    ASSUME NEW r, Good(r), NEW p \in BOOLEAN
    PROVE  /\ Good([r EXCEPT !.password = p])
           /\ ([r EXCEPT !.password = p].listed <=> r.listed)
           /\ [r EXCEPT !.password = p].state = r.state
BY DEF Good, Account, Live

\* purple_account_disconnect keeps a record good.
LEMMA DisconnectGood ==
    ASSUME NEW r, Good(r), r.listed
    PROVE  /\ Good(Disconnect(r)) /\ Disconnect(r).listed
           /\ ~Live(Disconnect(r))
<1>1. CASE ~Live(r)
  BY <1>1 DEF Disconnect
<1>2. CASE Live(r)
  <2> DEFINE p == Saved(r)
  <2>1. Disconnect(r) = [Destroyed(r) EXCEPT !.password = p]
    BY <1>2 DEF Disconnect
  <2>2. p \in BOOLEAN
    BY DEF Saved
  <2>3. Good(Destroyed(r)) /\ Destroyed(r).listed /\ ~Live(Destroyed(r))
    BY DestroyedGood
  <2> HIDE DEF p
  <2> QED BY <2>1, <2>2, <2>3, PasswordChangeGood DEF Live
<1> QED BY <1>1, <1>2

\* So does _purple_connection_new, for either purpose, of a listed account.
LEMMA NewConnectionGood ==
    ASSUME NEW r, Good(r), r.listed, NEW purpose \in {"login", "register"}
    PROVE  /\ Good(NewConnection(r, purpose)) /\ NewConnection(r, purpose).listed
<1>1. CASE Live(r)
  BY <1>1 DEF NewConnection
<1>2. CASE ~Live(r)
  <2> DEFINE w == (purpose = "register")
  <2>1. w \in BOOLEAN /\ (w => purpose = "register")
    OBVIOUS
  <2>2. NewConnection(r, purpose) =
          [r EXCEPT !.state = "connecting", !.purpose = purpose,
                    !.wants_to_die = w, !.failed = FALSE]
    BY <1>2 DEF NewConnection
  <2> HIDE DEF w
  <2> QED BY <1>2, <2>1, <2>2, ZenonT(60) DEF Good, Account, Live
<1> QED BY <1>1, <1>2

\* So does purple_account_connect.
LEMMA ConnectGood ==
    ASSUME NEW r, Good(r), r.listed
    PROVE  /\ Good(Connect(r)) /\ Connect(r).listed
<1>1. CASE ~r.enabled
  BY <1>1 DEF Connect
<1>2. CASE r.enabled /\ r.asks /\ ~r.password
  BY <1>2 DEF Connect, Good, Account, Live
<1>3. CASE r.enabled /\ ~(r.asks /\ ~r.password)
  BY <1>3, NewConnectionGood DEF Connect
<1> QED BY <1>1, <1>2, <1>3

\* So does purple_account_set_enabled.
LEMMA SetEnabledGood ==
    ASSUME NEW r, Good(r), r.listed, NEW value \in BOOLEAN
    PROVE  /\ Good(SetEnabled(r, value)) /\ SetEnabled(r, value).listed
<1> DEFINE s == [r EXCEPT !.enabled = value]
<1>1. Good(s) /\ s.listed
  BY DEF Good, Account, Live
<1>2. SetEnabled(r, value) \in {s, Connect(s), Disconnect(s)}
  BY DEF SetEnabled
<1> HIDE DEF s
<1> QED BY <1>1, <1>2, ConnectGood, DisconnectGood

\* So does removing the reconnection entry.
LEMMA ForgetReconGood ==
    ASSUME NEW r, Good(r)
    PROVE  /\ Good(ForgetRecon(r)) /\ (ForgetRecon(r).listed <=> r.listed)
           /\ ForgetRecon(r).state = r.state
<1>1. 0 \in 0..MaxDelay
  BY DelayAssumption
<1> QED BY <1>1 DEF ForgetRecon, Good, Account, Live

\* So does do_signon.
LEMMA DoSignonGood ==
    ASSUME NEW r, Good(r), r.listed
    PROVE  /\ Good(DoSignon(r)) /\ DoSignon(r).listed
<1> DEFINE s == [r EXCEPT !.timeout = FALSE]
<1>1. Good(s) /\ s.listed
  BY DEF Good, Account, Live
<1>2. DoSignon(r) \in {s, Connect(s)}
  BY DEF DoSignon
<1> HIDE DEF s
<1> QED BY <1>1, <1>2, ConnectGood

\* Which delays a retry may be given.
LEMMA NextDelaysBound ==
    ASSUME NEW r, r \in Account
    PROVE  NextDelays(r) \subseteq 1..MaxDelay
<1>1. r.delay \in 0..MaxDelay
  BY DEF Account
<1>2. CASE r.delay = 0
  BY <1>2, DelayAssumption DEF NextDelays
<1>3. CASE r.delay # 0
  BY <1>1, <1>3, DelayAssumption DEF NextDelays
<1> QED BY <1>2, <1>3

-----------------------------------------------------------------------------
(* The inductive invariant, and one lemma per kind of step.                *)

IInv ==
    /\ nm_state \in NetworkStates
    /\ started \in BOOLEAN
    /\ acct \in [Accounts -> Account]
    /\ \A a \in Accounts : Good(acct[a])

\* A handler that leaves a good record keeps the invariant.
LEMMA BecomesKeeps ==
    ASSUME IInv, NEW a \in Accounts, NEW r, Good(r), Becomes(a, r)
    PROVE  IInv'
<1>1. r \in Account
  BY DEF Good
<1>2. acct' \in [Accounts -> Account]
  BY <1>1 DEF IInv, Becomes
<1>3. \A b \in Accounts : acct'[b] = IF b = a THEN r ELSE acct[b]
  BY DEF IInv, Becomes
<1>4. \A b \in Accounts : Good(acct'[b])
  BY <1>3 DEF IInv
<1>5. (\A b \in Accounts : Good(acct[b]))'
  BY <1>4 DEF Good, Live
<1> QED BY <1>2, <1>5 DEF IInv, Becomes

\* What protocol and timers do keeps the invariant.
LEMMA MachineKeeps ==
    ASSUME IInv, NEW a \in Accounts, Machine(a)
    PROVE  IInv'
<1> DEFINE r == acct[a]
<1>1. Good(r) /\ r \in Account
  BY DEF IInv, Good
<1>2. CASE SignedOn(a)
  <2> DEFINE s == [ForgetRecon(r) EXCEPT !.state = "connected",
                        !.keepalive = TRUE, !.current_error = "none"]
  <2>1. r.listed /\ r.state = "connecting" /\ Becomes(a, s)
    BY <1>2 DEF SignedOn
  <2>2. Good(ForgetRecon(r)) /\ ForgetRecon(r).listed
        /\ ForgetRecon(r).state = "connecting"
    BY <1>1, <2>1, ForgetReconGood
  <2>3. Good(s)
    BY <2>2 DEF Good, Account, Live
  <2> QED BY <2>1, <2>3, BecomesKeeps
<1>3. CASE TransientError(a)
  <2>1. r.listed /\ Live(r) /\ ~r.disconnect_timeout
    BY <1>3 DEF TransientError
  <2>2. PICK d \in NextDelays(r) :
          Becomes(a, [r EXCEPT !.wants_to_die = FALSE, !.delay = d,
                               !.timeout = TRUE, !.current_error = "transient",
                               !.disconnect_timeout = TRUE])
    BY <1>3 DEF TransientError
  <2>3. d \in 1..MaxDelay /\ d \in 0..MaxDelay /\ d > 0
    BY <1>1, NextDelaysBound, DelayAssumption
  <2>4. Good([r EXCEPT !.wants_to_die = FALSE, !.delay = d,
                       !.timeout = TRUE, !.current_error = "transient",
                       !.disconnect_timeout = TRUE])
    BY <1>1, <2>1, <2>3 DEF Good, Account, Live
  <2> QED BY <2>2, <2>4, BecomesKeeps
<1>4. CASE FatalError(a)
  <2>1. PICK p \in {r.password, Saved(r)} :
          Becomes(a, [SetEnabled(ForgetRecon([r EXCEPT !.wants_to_die = TRUE]),
                                 FALSE) EXCEPT
                        !.password = p,
                        !.current_error = "fatal", !.disconnect_timeout = TRUE])
    BY <1>4 DEF FatalError
  <2> DEFINE s == [r EXCEPT !.wants_to_die = TRUE]
             t == [SetEnabled(ForgetRecon(s), FALSE) EXCEPT
                        !.password = p,
                        !.current_error = "fatal", !.disconnect_timeout = TRUE]
  <2>5. r.listed /\ Live(r) /\ Becomes(a, t) /\ p \in BOOLEAN
    BY <1>1, <1>4, <2>1 DEF FatalError, Saved, Account
  <2>2. SetEnabled(ForgetRecon(s), FALSE) = [ForgetRecon(s) EXCEPT !.enabled = FALSE]
    BY <1>1 DEF SetEnabled, ForgetRecon, Account
  <2>3. 0 \in 0..MaxDelay
    BY DelayAssumption
  <2>4. Good(t)
    BY <1>1, <2>5, <2>2, <2>3, ZenonT(60) DEF ForgetRecon, Good, Account, Live
  <2> QED BY <2>5, <2>4, BecomesKeeps
<1>5. CASE DisconnectTimer(a)
  <2> DEFINE f == (r.current_error = "transient")
             d == [Disconnect(r) EXCEPT !.password = r.password]
  <2>1. r.listed /\ Becomes(a, [d EXCEPT !.failed = f])
    BY <1>5 DEF DisconnectTimer, DisconnectKeepingPassword
  <2>2. Good(Disconnect(r)) /\ r.password \in BOOLEAN /\ f \in BOOLEAN
    BY <1>1, <2>1, DisconnectGood DEF Account
  <2>3. Good(d)
    BY <2>2, PasswordChangeGood
  <2> HIDE DEF d, f
  <2>4. Good([d EXCEPT !.failed = f])
    BY <2>2, <2>3 DEF Good, Account, Live
  <2> QED BY <2>1, <2>4, BecomesKeeps
<1>6. CASE ReconTimer(a)
  <2>1. r.listed /\ Becomes(a, DoSignon(r))
    BY <1>6 DEF ReconTimer
  <2> QED BY <1>1, <2>1, DoSignonGood, BecomesKeeps
<1>7. CASE RefusedAfterError(a)
  <2>1. Becomes(a, [r EXCEPT !.password = Saved(r)]) /\ Saved(r) \in BOOLEAN
    BY <1>7 DEF RefusedAfterError, Saved
  <2> QED BY <1>1, <2>1, PasswordChangeGood, BecomesKeeps
<1> QED BY <1>2, <1>3, <1>4, <1>5, <1>6, <1>7 DEF Machine

\* What a deleted account may leave behind.
LEMMA RemainsGood ==
    ASSUME NEW st \in {"disconnected", "connecting", "connected"},
           NEW p \in {"login", "register"},
           NEW w \in BOOLEAN, NEW k \in BOOLEAN, NEW d \in BOOLEAN,
           NEW t \in BOOLEAN, ~t,
           k <=> st = "connected",
           st # "disconnected" <=> w,
           d => w,
           w => p = "register" \/ d
    PROVE  Good([NoAccount EXCEPT
                    !.state = st, !.purpose = p, !.wants_to_die = w,
                    !.keepalive = k, !.disconnect_timeout = d,
                    !.delay = 0, !.timeout = t])
<1>1. 0 \in 0..MaxDelay
  BY DelayAssumption
<1> QED BY <1>1 DEF Good, Account, NoAccount, Live

\* So do adding and modifying accounts, the password dialog and deletion.
LEMMA DialogsKeep ==
    ASSUME IInv, NEW a \in Accounts,
           \/ AddAndRegister(a) \/ AddAndEnable(a) \/ Modify(a)
           \/ PasswordOK(a) \/ PasswordCancel(a)
           \/ AskDelete(a) \/ KeepAccount(a) \/ Delete(a)
    PROVE  IInv'
<1> DEFINE r == acct[a]
           New(o, p, m, k) == [NoAccount EXCEPT
                                  !.listed = TRUE, !.online = o,
                                  !.password = p, !.remember = m, !.asks = k]
<1>1. Good(r) /\ r \in Account
  BY DEF IInv, Good
<1>2. ASSUME NEW o \in BOOLEAN, NEW p \in BOOLEAN, NEW m \in BOOLEAN,
             NEW k \in BOOLEAN
      PROVE  Good(New(o, p, m, k)) /\ New(o, p, m, k).listed
  BY NoAccountGood, ZenonT(60) DEF Good, Account, NoAccount, Live
<1> HIDE DEF New
<1>3. CASE AddAndRegister(a)
  <2>1. PICK p \in BOOLEAN, m \in BOOLEAN, k \in BOOLEAN, o \in BOOLEAN :
          Becomes(a, NewConnection(New(o, p, m, k), "register"))
    BY <1>3 DEF AddAndRegister, New
  <2> QED BY <1>2, <2>1, NewConnectionGood, BecomesKeeps
<1>4. CASE AddAndEnable(a)
  <2>1. PICK p \in BOOLEAN, m \in BOOLEAN, k \in BOOLEAN, o \in BOOLEAN :
          Becomes(a, SetEnabled(New(o, p, m, k), TRUE))
    BY <1>4 DEF AddAndEnable, New
  <2> QED BY <1>2, <2>1, SetEnabledGood, BecomesKeeps
<1>5. CASE Modify(a)
  <2>1. PICK p \in BOOLEAN, m \in BOOLEAN, k \in BOOLEAN :
          Becomes(a, [r EXCEPT !.remember = m, !.asks = k, !.password = p /\ m])
    BY <1>5 DEF Modify
  <2> DEFINE q == p /\ m
  <2>2. q \in BOOLEAN
    OBVIOUS
  <2> HIDE DEF q
  <2>3. Good([r EXCEPT !.remember = m, !.asks = k, !.password = q])
    BY <1>1, <2>2, ZenonT(60) DEF Good, Account, Live
  <2> QED BY <2>1, <2>3, BecomesKeeps DEF q
<1>6. CASE PasswordOK(a)
  <2>1. r.listed
    BY <1>6 DEF PasswordOK
  <2>2. PICK m \in BOOLEAN :
          Becomes(a, NewConnection(
              [r EXCEPT !.request = "none", !.password = TRUE,
                        !.remember = r.remember \/ m], "login"))
    BY <1>6 DEF PasswordOK
  <2> DEFINE n == r.remember \/ m
             s == [r EXCEPT !.request = "none", !.password = TRUE,
                            !.remember = n]
  <2>3. n \in BOOLEAN
    OBVIOUS
  <2> HIDE DEF n
  <2>4. Good(s) /\ s.listed
    BY <1>1, <2>1, <2>3, ZenonT(60) DEF Good, Account, Live
  <2> QED BY <2>2, <2>4, NewConnectionGood, BecomesKeeps DEF n
<1>7. CASE PasswordCancel(a)
  <2> DEFINE s == [r EXCEPT !.request = "none"]
  <2>1. r.listed /\ Becomes(a, SetEnabled(s, FALSE))
    BY <1>7 DEF PasswordCancel
  <2>2. Good(s) /\ s.listed
    BY <1>1, <2>1 DEF Good, Account, Live
  <2> HIDE DEF s
  <2> QED BY <2>1, <2>2, SetEnabledGood, BecomesKeeps
<1>8. CASE AskDelete(a)
  <2>1. r.listed /\ Becomes(a, [r EXCEPT !.request = "delete"])
    BY <1>8 DEF AskDelete
  <2>2. Good([r EXCEPT !.request = "delete"])
    BY <1>1, <2>1 DEF Good, Account, Live
  <2> QED BY <2>1, <2>2, BecomesKeeps
<1>9. CASE KeepAccount(a)
  <2>1. r.listed /\ Becomes(a, [r EXCEPT !.request = "none"])
    BY <1>9 DEF KeepAccount
  <2>2. Good([r EXCEPT !.request = "none"])
    BY <1>1, <2>1 DEF Good, Account, Live
  <2> QED BY <2>1, <2>2, BecomesKeeps
<1>10. CASE Delete(a)
  <2> DEFINE d == SetEnabled(r, FALSE)
             s == ForgetRecon(d)
             t == [NoAccount EXCEPT
                    !.state = s.state, !.purpose = s.purpose,
                    !.wants_to_die = s.wants_to_die, !.keepalive = s.keepalive,
                    !.disconnect_timeout = s.disconnect_timeout,
                    !.delay = s.delay, !.timeout = s.timeout]
  <2>1. r.listed /\ Becomes(a, t)
    BY <1>10 DEF Delete
  <2>2. Good(d) /\ (Live(d) => d.wants_to_die)
    <3>1. CASE r.wants_to_die
      BY <1>1, <2>1, <3>1, SetEnabledGood DEF SetEnabled, Account
    <3>2. CASE ~r.wants_to_die
      <4> DEFINE e == [r EXCEPT !.enabled = FALSE]
      <4>1. Good(e) /\ e.listed /\ d = Disconnect(e)
        BY <1>1, <2>1, <3>2 DEF SetEnabled, Good, Account, Live
      <4> HIDE DEF e, d
      <4> QED BY <4>1, DisconnectGood
    <3> QED BY <3>1, <3>2
  <2> HIDE DEF d
  <2>3. Good(s) /\ s.delay = 0 /\ ~s.timeout /\ (Live(s) => s.wants_to_die)
    BY <2>2, ForgetReconGood, ZenonT(60) DEF ForgetRecon, Good, Account, Live
  <2> HIDE DEF s
  <2>4. /\ s.state \in {"disconnected", "connecting", "connected"}
        /\ s.purpose \in {"login", "register"}
        /\ s.wants_to_die \in BOOLEAN /\ s.keepalive \in BOOLEAN
        /\ s.disconnect_timeout \in BOOLEAN /\ s.timeout \in BOOLEAN
    BY <2>3 DEF Good, Account
  <2>5. /\ s.keepalive <=> s.state = "connected"
        /\ s.state # "disconnected" <=> s.wants_to_die
        /\ s.disconnect_timeout => s.wants_to_die
        /\ s.wants_to_die => s.purpose = "register" \/ s.disconnect_timeout
    BY <2>3 DEF Good, Live
  <2>6. Good(t)
    BY <2>3, <2>4, <2>5, RemainsGood
  <2> QED BY <2>1, <2>6, BecomesKeeps
<1> QED BY <1>3, <1>4, <1>5, <1>6, <1>7, <1>8, <1>9, <1>10

\* So do the check box, the error dialog, a change of status and the protocol's
\* own disconnect.
LEMMA StatusKeeps ==
    ASSUME IInv, NEW a \in Accounts,
           \/ Enable(a) \/ Disable(a) \/ ReEnable(a) \/ Reconnect(a)
           \/ DismissError(a) \/ SetStatus(a) \/ ProtocolCloses(a)
    PROVE  IInv'
<1> DEFINE r == acct[a]
           Put(o) == [r EXCEPT !.online = o]
           Clear == [r EXCEPT !.current_error = "none"]
<1>1. Good(r) /\ r \in Account
  BY DEF IInv, Good
<1>2. ASSUME NEW o \in BOOLEAN
      PROVE  Good(Put(o)) /\ (Put(o).listed <=> r.listed)
  BY <1>1 DEF Good, Account, Live
<1>3. Good(Clear) /\ (Clear.listed <=> r.listed)
  BY <1>1 DEF Good, Account, Live
<1> HIDE DEF Put, Clear
<1>4. CASE Enable(a)
  <2>1. r.listed /\ \E o \in BOOLEAN : Becomes(a, SetEnabled(Put(o), TRUE))
    BY <1>4 DEF Enable, Put
  <2> QED BY <1>2, <2>1, SetEnabledGood, BecomesKeeps
<1>5. CASE Disable(a)
  <2>1. r.listed /\ Becomes(a, SetEnabled(r, FALSE))
    BY <1>5 DEF Disable
  <2> QED BY <1>1, <2>1, SetEnabledGood, BecomesKeeps
<1>6. CASE ReEnable(a)
  <2>1. r.listed /\ Becomes(a, SetEnabled(Clear, TRUE))
    BY <1>6 DEF ReEnable, Clear
  <2> QED BY <1>3, <2>1, SetEnabledGood, BecomesKeeps
<1>7. CASE Reconnect(a)
  <2>1. r.listed /\ Becomes(a, Connect(r))
    BY <1>7 DEF Reconnect
  <2> QED BY <1>1, <2>1, ConnectGood, BecomesKeeps
<1>8. CASE DismissError(a)
  <2>1. Becomes(a, Clear)
    BY <1>8 DEF DismissError, Clear
  <2> QED BY <1>3, <2>1, BecomesKeeps
<1>9. CASE SetStatus(a)
  <2> DEFINE q == Saved(r)
  <2>1. q \in BOOLEAN
    BY DEF Saved
  <2>2. r.listed
    BY <1>9 DEF SetStatus
  <2>3. PICK o \in BOOLEAN :
          \/ Becomes(a, Put(o))
          \/ Becomes(a, Connect(Put(o)))
          \/ Becomes(a, Disconnect(Put(o)))
          \/ Becomes(a, [Put(o) EXCEPT !.password = q])
    BY <1>9 DEF SetStatus, Put
  <2> HIDE DEF q
  <2>4. Good(Put(o)) /\ Put(o).listed
    BY <1>2, <2>2
  <2> QED BY <2>1, <2>3, <2>4, ConnectGood, DisconnectGood,
             PasswordChangeGood, BecomesKeeps
<1>10. CASE ProtocolCloses(a)
  <2>1. r.listed /\ Becomes(a, Disconnect(r))
    BY <1>10 DEF ProtocolCloses
  <2> QED BY <1>1, <2>1, DisconnectGood, BecomesKeeps
<1> QED BY <1>4, <1>5, <1>6, <1>7, <1>8, <1>9, <1>10

\* A handler that goes over all accounts keeps the invariant if it leaves each
\* with a good record.
LEMMA EveryoneKeeps ==
    ASSUME nm_state' \in NetworkStates,
           started' \in BOOLEAN,
           NEW f, acct' = [a \in Accounts |-> f[a]],
           \A a \in Accounts : Good(f[a])
    PROVE  IInv'
<1>1. \A a \in Accounts : acct'[a] = f[a] /\ f[a] \in Account
  BY DEF Good
<1>2. acct' \in [Accounts -> Account]
  BY <1>1
<1>3. \A a \in Accounts : Good(acct'[a])
  BY <1>1
<1>4. (\A a \in Accounts : Good(acct[a]))'
  BY <1>3 DEF Good, Live
<1> QED BY <1>2, <1>4 DEF IInv

\* So does purple_accounts_restore_current_statuses.
LEMMA StartupKeeps ==
    ASSUME IInv, Startup
    PROVE  IInv'
<1> DEFINE f == [a \in Accounts |->
                  IF /\ acct[a].listed /\ acct[a].enabled /\ acct[a].online
                     /\ NetworkIsAvailable(nm_state)
                  THEN Connect(acct[a]) ELSE acct[a]]
<1>1. acct' = [a \in Accounts |-> f[a]]
  BY DEF Startup
<1>2. ASSUME NEW a \in Accounts
      PROVE  Good(f[a])
  <2>1. Good(acct[a])
    BY DEF IInv
  <2> QED BY <2>1, ConnectGood
<1> HIDE DEF f
<1> QED BY <1>1, <1>2, EveryoneKeeps DEF Startup, IInv

\* So do NetworkManager's messages.
LEMMA NetworkKeeps ==
    ASSUME IInv, Network
    PROVE  IInv'
<1>1. CASE NetworkConnected
  <2> DEFINE f == [a \in Accounts |->
                  IF ~Active(acct[a]) THEN acct[a]
                  ELSE IF Live(ForgetRecon(acct[a])) THEN ForgetRecon(acct[a])
                  ELSE DoSignon(ForgetRecon(acct[a]))]
  <2>1. acct' = [a \in Accounts |-> f[a]]
    BY <1>1 DEF NetworkConnected
  <2>2. ASSUME NEW a \in Accounts
        PROVE  Good(f[a])
    <3>1. Good(acct[a])
      BY DEF IInv
    <3>2. CASE ~Active(acct[a])
      BY <3>1, <3>2
    <3>3. CASE Active(acct[a])
      <4>1. Good(ForgetRecon(acct[a])) /\ ForgetRecon(acct[a]).listed
        BY <3>1, <3>3, ForgetReconGood DEF Active
      <4> QED BY <3>3, <4>1, DoSignonGood
    <3> QED BY <3>2, <3>3
  <2> HIDE DEF f
  <2> QED BY <1>1, <2>1, <2>2, EveryoneKeeps
         DEF NetworkConnected, NetworkStates, IInv
<1>2. CASE NetworkDisconnected
  <2> DEFINE f == [a \in Accounts |->
                        IF Active(acct[a])
                        THEN DisconnectKeepingPassword(acct[a]) ELSE acct[a]]
  <2>1. CASE nm_state \notin {"connected", "unknown"}
    <3>1. acct' = [a \in Accounts |-> acct[a]]
      BY <1>2, <2>1 DEF NetworkDisconnected, IInv
    <3> QED BY <1>2, <3>1, EveryoneKeeps
           DEF NetworkDisconnected, NetworkStates, IInv
  <2>2. CASE nm_state \in {"connected", "unknown"}
    <3>1. acct' = [a \in Accounts |-> f[a]]
      BY <1>2, <2>2 DEF NetworkDisconnected
    <3>2. ASSUME NEW a \in Accounts
          PROVE  Good(f[a])
      <4>1. Good(acct[a]) /\ acct[a].password \in BOOLEAN
        BY DEF IInv, Account
      <4>2. CASE ~Active(acct[a])
        BY <4>1, <4>2
      <4>3. CASE Active(acct[a])
        <5>1. Good(Disconnect(acct[a]))
          BY <4>1, <4>3, DisconnectGood DEF Active
        <5> QED BY <4>1, <4>3, <5>1, PasswordChangeGood
                DEF DisconnectKeepingPassword
      <4> QED BY <4>2, <4>3
    <3> HIDE DEF f
    <3> QED BY <1>2, <3>1, <3>2, EveryoneKeeps
           DEF NetworkDisconnected, NetworkStates, IInv
  <2> QED BY <2>1, <2>2
<1>3. CASE NetworkUnknown
  BY <1>3 DEF NetworkUnknown, NetworkStates, IInv, Good, Live
<1> QED BY <1>1, <1>2, <1>3 DEF Network

\* An account read from accounts.xml is good.
LEMMA LoadedGood ==
    ASSUME NEW x \in [enabled : BOOLEAN, online : BOOLEAN, password : BOOLEAN,
                      asks : BOOLEAN, error : {"none", "transient", "fatal"}]
    PROVE  Good(Loaded(x))
<1> DEFINE e == x.enabled
           o == x.online
           p == x.password
           k == x.asks
           c == x.error
           r == [NoAccount EXCEPT
                    !.listed = TRUE, !.enabled = e, !.online = o,
                    !.password = p, !.remember = p, !.asks = k,
                    !.current_error = c]
<1>1. NoAccount \in Account
  BY NoAccountGood DEF Good
<1>2. /\ e \in BOOLEAN /\ o \in BOOLEAN /\ p \in BOOLEAN /\ k \in BOOLEAN
      /\ c \in {"none", "transient", "fatal"}
  OBVIOUS
<1>3. Loaded(x) = r
  BY Zenon DEF Loaded
<1> HIDE DEF e, o, p, k, c
<1>4. r \in Account
  BY <1>1, <1>2, ZenonT(60) DEF Account
<1>5. /\ r.listed /\ r.state = "disconnected" /\ ~r.disconnect_timeout
      /\ ~r.keepalive /\ ~r.timeout /\ ~r.wants_to_die
  BY <1>1 DEF NoAccount
<1> HIDE DEF r
<1>6. Good(r)
  BY <1>4, <1>5 DEF Good, Live
<1> QED BY <1>3, <1>6

\* The invariant holds at startup.
LEMMA InitInv == Init => IInv
<1> SUFFICES ASSUME Init PROVE IInv
  OBVIOUS
<1>1. ASSUME NEW r \in LoadedAccounts PROVE Good(r)
  BY LoadedGood DEF LoadedAccounts
<1>2. \A a \in Accounts : acct[a] \in {NoAccount} \cup LoadedAccounts
  BY DEF Init
<1>3. \A a \in Accounts : Good(acct[a])
  BY <1>1, <1>2, NoAccountGood
<1>4. acct \in [Accounts -> Account]
  BY <1>3 DEF Init, Good
<1> QED BY <1>3, <1>4 DEF IInv, Init

\* Every step keeps the invariant.
LEMMA NextInv == IInv /\ [Next]_vars => IInv'
<1> SUFFICES ASSUME IInv, [Next]_vars PROVE IInv'
  OBVIOUS
<1>1. CASE UNCHANGED vars
  BY <1>1 DEF vars, IInv, Good, Live
<1>2. CASE Startup
  BY <1>2, StartupKeeps
<1>3. CASE Network
  BY <1>3, NetworkKeeps
<1>4. ASSUME NEW a \in Accounts, Machine(a) \/ ProtocolCloses(a) \/ User(a)
      PROVE  IInv'
  BY <1>4, MachineKeeps, DialogsKeep, StatusKeeps DEF User
<1> QED BY <1>1, <1>2, <1>3, <1>4 DEF Next

\* What the invariant implies.
LEMMA GoodImplies ==
    ASSUME IInv
    PROVE  /\ TypeOK /\ TimersHaveOwners /\ DyingIsTemporary
           /\ FatalNeverRetries /\ DeletedIsForgotten
BY DEF IInv, Good, TypeOK, TimersHaveOwners, DyingIsTemporary,
       FatalNeverRetries, DeletedIsForgotten

-----------------------------------------------------------------------------
(* What the steps nobody asked for do to the passwords.                    *)

\* purple_account_connect forgets no password.
LEMMA ConnectKeepsPassword ==
    ASSUME NEW r, r \in Account, r.password
    PROVE  Connect(r).password
BY DEF Connect, NewConnection, Account

\* Nor does do_signon.
LEMMA DoSignonKeepsPassword ==
    ASSUME NEW r, r \in Account, r.password
    PROVE  DoSignon(r).password
<1> DEFINE s == [r EXCEPT !.timeout = FALSE]
<1>1. s \in Account /\ s.password
  BY DEF Account
<1>2. DoSignon(r) \in {s, Connect(s)}
  BY DEF DoSignon
<1> HIDE DEF s
<1> QED BY <1>1, <1>2, ConnectKeepsPassword

\* Nor the disconnects that put it back.
LEMMA DisconnectKept ==
    ASSUME NEW r, r \in Account, r.password
    PROVE  DisconnectKeepingPassword(r).password
BY DEF DisconnectKeepingPassword, Disconnect, Destroyed, Account

\* Nor removing a reconnection entry.
LEMMA ForgetReconKept ==
    ASSUME NEW r, r \in Account, r.password
    PROVE  ForgetRecon(r) \in Account /\ ForgetRecon(r).password
<1>1. 0 \in 0..MaxDelay
  BY DelayAssumption
<1> QED BY <1>1 DEF ForgetRecon, Account

\* PasswordSurvivesFailure, of one account whose record becomes s: its password
\* is kept, or was unsaved and is refused with its session.
Kept(r, s) ==
    r.password /\ ~s.password =>
        /\ ~r.remember
        /\ Live(r) /\ s.disconnect_timeout
        /\ r.disconnect_timeout \/ s.current_error = "fatal"

\* A handler of one account that keeps its password keeps all.
LEMMA OneKept ==
    ASSUME IInv, NEW a \in Accounts, NEW r, Becomes(a, r), Kept(acct[a], r)
    PROVE  \A b \in Accounts : Kept(acct[b], acct'[b])
<1> SUFFICES ASSUME NEW b \in Accounts PROVE Kept(acct[b], acct'[b])
  OBVIOUS
<1>1. acct'[b] = IF b = a THEN r ELSE acct[b]
  BY DEF IInv, Becomes
<1>2. Kept(acct[b], acct[b])
  BY DEF Kept
<1> QED BY <1>1, <1>2

\* A password that is still known is kept.
LEMMA StillKnown ==
    ASSUME NEW r, NEW s, r.password => s.password
    PROVE  Kept(r, s)
BY DEF Kept

\* The protocol and the timers forget a password only where it is refused.
LEMMA MachineKept ==
    ASSUME IInv, NEW a \in Accounts, Machine(a)
    PROVE  \A b \in Accounts : Kept(acct[b], acct'[b])
<1> DEFINE r == acct[a]
<1>1. r \in Account /\ Good(r)
  BY DEF IInv
<1>2. CASE SignedOn(a)
  <2> DEFINE s == [ForgetRecon(r) EXCEPT !.state = "connected",
                        !.keepalive = TRUE, !.current_error = "none"]
  <2>1. Becomes(a, s)
    BY <1>2 DEF SignedOn
  <2>2. r.password => s.password
    BY <1>1 DEF ForgetRecon, Account
  <2> HIDE DEF s
  <2> QED BY <2>1, <2>2, StillKnown, OneKept
<1>3. CASE TransientError(a)
  <2>1. PICK d \in NextDelays(r) :
          Becomes(a, [r EXCEPT !.wants_to_die = FALSE, !.delay = d,
                               !.timeout = TRUE, !.current_error = "transient",
                               !.disconnect_timeout = TRUE])
    BY <1>3 DEF TransientError
  <2> DEFINE s == [r EXCEPT !.wants_to_die = FALSE, !.delay = d,
                               !.timeout = TRUE, !.current_error = "transient",
                               !.disconnect_timeout = TRUE]
  <2>2. r.password => s.password
    BY <1>1 DEF Account
  <2>3. Becomes(a, s)
    BY <2>1
  <2> HIDE DEF s
  <2> QED BY <2>2, <2>3, StillKnown, OneKept
<1>4. CASE FatalError(a)
  <2> DEFINE q == ForgetRecon([r EXCEPT !.wants_to_die = TRUE])
  <2>1. PICK p \in {r.password, Saved(r)} :
          Becomes(a, [SetEnabled(q, FALSE) EXCEPT !.password = p,
                        !.current_error = "fatal", !.disconnect_timeout = TRUE])
    BY <1>4 DEF FatalError
  <2> DEFINE s == [SetEnabled(q, FALSE) EXCEPT !.password = p,
                        !.current_error = "fatal", !.disconnect_timeout = TRUE]
  <2>2. SetEnabled(q, FALSE) = [q EXCEPT !.enabled = FALSE]
    BY <1>1 DEF SetEnabled, ForgetRecon, Account
  <2>3. /\ s.password = p /\ s.current_error = "fatal"
        /\ s.disconnect_timeout
    BY <1>1, <2>2 DEF ForgetRecon, Account
  <2>4. Becomes(a, s)
    BY <2>1
  <2> HIDE DEF q, s
  <2>5. Live(r)
    BY <1>4 DEF FatalError
  <2>6. Kept(r, s)
    BY <2>1, <2>3, <2>5 DEF Kept, Saved
  <2> QED BY <2>4, <2>6, OneKept
<1>5. CASE DisconnectTimer(a)
  <2> DEFINE d == DisconnectKeepingPassword(r)
             s == [d EXCEPT !.failed = (r.current_error = "transient")]
  <2>1. Becomes(a, s)
    BY <1>5 DEF DisconnectTimer
  <2>2. r.password => s.password
    BY <1>1, DisconnectKept
       DEF DisconnectKeepingPassword, Disconnect, Destroyed, Account
  <2> HIDE DEF s
  <2> QED BY <2>1, <2>2, StillKnown, OneKept
<1>6. CASE ReconTimer(a)
  <2>1. Becomes(a, DoSignon(r))
    BY <1>6 DEF ReconTimer
  <2>2. r.password => DoSignon(r).password
    BY <1>1, DoSignonKeepsPassword
  <2> QED BY <2>1, <2>2, StillKnown, OneKept
<1>7. CASE RefusedAfterError(a)
  <2> DEFINE s == [r EXCEPT !.password = Saved(r)]
  <2>1. Becomes(a, s) /\ r.disconnect_timeout
    BY <1>7 DEF RefusedAfterError
  <2>2. s.password = Saved(r) /\ s.disconnect_timeout = r.disconnect_timeout
    BY <1>1 DEF Account
  <2> HIDE DEF s
  <2>3. Kept(r, s)
    BY <1>1, <2>1, <2>2 DEF Kept, Saved, Good
  <2> QED BY <2>1, <2>3, OneKept
<1> QED BY <1>2, <1>3, <1>4, <1>5, <1>6, <1>7 DEF Machine

\* Nor does startup or NetworkManager.
LEMMA AllKept ==
    ASSUME IInv, Network \/ Startup
    PROVE  \A b \in Accounts : Kept(acct[b], acct'[b])
<1> SUFFICES ASSUME NEW b \in Accounts, acct[b].password
             PROVE  acct'[b].password
  BY StillKnown
<1>1. acct[b] \in Account
  BY DEF IInv
<1>2. CASE Startup
  BY <1>1, <1>2, ConnectKeepsPassword DEF Startup
<1>3. CASE NetworkConnected
  <2>1. acct'[b] \in {acct[b], ForgetRecon(acct[b]),
                      DoSignon(ForgetRecon(acct[b]))}
    BY <1>3 DEF NetworkConnected
  <2> QED BY <1>1, <2>1, ForgetReconKept, DoSignonKeepsPassword
<1>4. CASE NetworkDisconnected
  <2>1. acct'[b] \in {acct[b], DisconnectKeepingPassword(acct[b])}
    BY <1>4 DEF NetworkDisconnected
  <2> QED BY <1>1, <2>1, DisconnectKept
<1>5. CASE NetworkUnknown
  BY <1>5 DEF NetworkUnknown
<1> QED BY <1>2, <1>3, <1>4, <1>5 DEF Network

-----------------------------------------------------------------------------
(* The theorems.                                                           *)

\* The invariant holds in every reachable state.
LEMMA Inductive == Spec => []IInv
BY InitInv, NextInv, PTL DEF Spec

\* The account records keep their types through every handler of account.c,
\* connection.c and gtkconn.c, for any number of accounts and any delays.
THEOREM TypeCorrect == Spec => []TypeOK
BY Inductive, GoodImplies, PTL

\* No timer of an account outlives what would stop it: connection.c removes
\* the pending disconnect and the keep-alive with the connection, gtkconn.c
\* the do_signon timer with its entry.
THEOREM TimersAreOwned == Spec => []TimersHaveOwners
BY Inductive, GoodImplies, PTL

\* A connection that wants to die, which purple_account_set_enabled will not
\* close, is registering or about to be closed after an error.
THEOREM DyingIsBrief == Spec => []DyingIsTemporary
BY Inductive, GoodImplies, PTL

\* pidgin_connection_report_disconnect_reason takes back every retry when an
\* error is fatal.
THEOREM FatalIsFinal == Spec => []FatalNeverRetries
BY Inductive, GoodImplies, PTL

\* purple_accounts_delete takes the account's retry and dialogs along.
THEOREM DeletionIsClean == Spec => []DeletedIsForgotten
BY Inductive, GoodImplies, PTL

\* The callers of purple_account_disconnect that nobody asked to disconnect
\* (purple_connection_disconnect_cb, the loss of the network) put the unsaved
\* password back; only the refusal of a login, whose session it ends for good or
\* finds ended by an earlier error, clears it, and no step clears a saved one.
THEOREM PasswordSurvives == Spec => PasswordSurvivesFailure
<1>1. IInv => ((\E a \in Accounts : Machine(a)) \/ Network \/ Startup =>
            \A a \in Accounts :
                acct[a].password /\ ~acct[a].password' =>
                    /\ ~acct[a].remember
                    /\ Live(acct[a]) /\ acct[a].disconnect_timeout'
                    /\ \/ acct[a].disconnect_timeout
                       \/ acct[a].current_error' = "fatal")
  BY MachineKept, AllKept DEF Kept
<1> QED BY <1>1, Inductive, PTL DEF PasswordSurvivesFailure

\* BackOff, of one account whose record becomes s, if no network comes back.
BacksOff(r, s) ==
    r.delay > 0 /\ s.delay < r.delay =>
        /\ s.delay = 0
        /\ s.state = "connected" \/ s.current_error = "fatal" \/ ~s.listed

\* What connects or disconnects leaves the retry's delay alone.
LEMMA DelayKept ==
    ASSUME NEW r \in Account
    PROVE  /\ Disconnect(r).delay = r.delay
           /\ DisconnectKeepingPassword(r).delay = r.delay
           /\ Connect(r).delay = r.delay
           /\ DoSignon(r).delay = r.delay
           /\ \A purpose : NewConnection(r, purpose).delay = r.delay
           /\ \A value \in BOOLEAN : SetEnabled(r, value).delay = r.delay
<1>1. ASSUME NEW s \in Account PROVE Disconnect(s).delay = s.delay
  BY DEF Disconnect, Destroyed, Account
<1>2. ASSUME NEW s \in Account, NEW purpose
      PROVE NewConnection(s, purpose).delay = s.delay
  BY DEF NewConnection, Account
<1>3. ASSUME NEW s \in Account PROVE Connect(s).delay = s.delay
  BY <1>2 DEF Connect, Account
<1>4. DisconnectKeepingPassword(r).delay = r.delay
  BY DEF DisconnectKeepingPassword, Disconnect, Destroyed, Account
<1>5. DoSignon(r).delay = r.delay
  BY <1>3, ZenonT(60) DEF DoSignon, Account
<1>6. ASSUME NEW value \in BOOLEAN PROVE SetEnabled(r, value).delay = r.delay
  <2>1. [r EXCEPT !.enabled = value] \in Account
        /\ [r EXCEPT !.enabled = value].delay = r.delay
    BY DEF Account
  <2> QED BY <1>1, <1>3, <2>1 DEF SetEnabled
<1> QED BY <1>1, <1>2, <1>3, <1>4, <1>5, <1>6

\* Forgetting a retry takes its delay to zero.
LEMMA DelayForgotten ==
    ASSUME NEW r \in Account
    PROVE  ForgetRecon(r) \in Account /\ ForgetRecon(r).delay = 0
<1> DEFINE zero == 0
<1>1. zero \in 0..MaxDelay
  BY DelayAssumption
<1>2. ForgetRecon(r) = [r EXCEPT !.delay = zero, !.timeout = FALSE]
  BY DEF ForgetRecon
<1> HIDE DEF zero
<1>3. /\ [r EXCEPT !.delay = zero, !.timeout = FALSE] \in Account
      /\ [r EXCEPT !.delay = zero, !.timeout = FALSE].delay = zero
  BY <1>1 DEF Account
<1> QED BY <1>2, <1>3 DEF zero

\* A handler of one account backs off if it does so for that account.
LEMMA OneBacksOff ==
    ASSUME IInv, NEW a \in Accounts, NEW s, Becomes(a, s),
           BacksOff(acct[a], s)
    PROVE  \A b \in Accounts : BacksOff(acct[b], acct'[b])
<1> SUFFICES ASSUME NEW b \in Accounts
             PROVE  BacksOff(acct[b], acct'[b])
  OBVIOUS
<1>1. acct[b] \in Account /\ acct'[b] = (IF b = a THEN s ELSE acct[b])
  BY DEF IInv, Becomes
<1>2. BacksOff(acct[b], acct[b])
  BY <1>1, DelayAssumption DEF BacksOff, Account
<1> QED BY <1>1, <1>2

\* A delay that does not shrink backs off.
LEMMA Unshrunk ==
    ASSUME NEW r \in Account, NEW s, s.delay \in Nat, s.delay >= r.delay
    PROVE  BacksOff(r, s)
BY DelayAssumption DEF BacksOff, Account

\* The protocol and the timers: a delay is doubled up to its limit, and only
\* forgotten with success or a fatal error.
LEMMA MachineBacksOff ==
    ASSUME IInv, NEW a \in Accounts, Machine(a) \/ ProtocolCloses(a)
    PROVE  \A b \in Accounts : BacksOff(acct[b], acct'[b])
<1> DEFINE r == acct[a]
<1>1. r \in Account /\ r.delay \in Nat /\ r.delay <= MaxDelay
  BY DelayAssumption DEF IInv, Account
<1> HIDE DEF r
<1>2. CASE SignedOn(a)
  <2> DEFINE s == [ForgetRecon(r) EXCEPT !.state = "connected",
                        !.keepalive = TRUE, !.current_error = "none"]
  <2>1. Becomes(a, s)
    BY <1>2 DEF SignedOn, r
  <2>2. s.delay = 0 /\ s.state = "connected"
    BY <1>1 DEF ForgetRecon, Account
  <2> HIDE DEF s
  <2>3. BacksOff(r, s)
    BY <2>2 DEF BacksOff
  <2> QED BY <2>1, <2>3, OneBacksOff DEF r
<1>3. CASE TransientError(a)
  <2>1. PICK d \in NextDelays(r) :
          Becomes(a, [r EXCEPT !.wants_to_die = FALSE, !.delay = d,
                               !.timeout = TRUE, !.current_error = "transient",
                               !.disconnect_timeout = TRUE])
    BY <1>3 DEF TransientError, r
  <2> DEFINE s == [r EXCEPT !.wants_to_die = FALSE, !.delay = d,
                               !.timeout = TRUE, !.current_error = "transient",
                               !.disconnect_timeout = TRUE]
  <2>2. d \in Nat /\ d >= r.delay
    BY <1>1, DelayAssumption DEF NextDelays
  <2>3. s.delay = d
    BY <1>1 DEF Account
  <2>4. Becomes(a, s)
    BY <2>1
  <2> HIDE DEF s
  <2>5. BacksOff(r, s)
    BY <1>1, <2>2, <2>3, Unshrunk
  <2> QED BY <2>4, <2>5, OneBacksOff DEF r
<1>4. CASE FatalError(a)
  <2> DEFINE q == ForgetRecon([r EXCEPT !.wants_to_die = TRUE])
  <2>1. PICK p \in {r.password, Saved(r)} :
          Becomes(a, [SetEnabled(q, FALSE) EXCEPT !.password = p,
                        !.current_error = "fatal", !.disconnect_timeout = TRUE])
    BY <1>4 DEF FatalError, r
  <2> DEFINE s == [SetEnabled(q, FALSE) EXCEPT !.password = p,
                        !.current_error = "fatal", !.disconnect_timeout = TRUE]
  <2>7. Becomes(a, s)
    BY <2>1
  <2>2. q \in Account /\ q.delay = 0
    <3>1. [r EXCEPT !.wants_to_die = TRUE] \in Account
      BY <1>1 DEF Account
    <3> QED BY <3>1, DelayForgotten
  <2>3. q.wants_to_die
    <3>1. [r EXCEPT !.wants_to_die = TRUE].wants_to_die
      BY <1>1 DEF Account
    <3>2. [r EXCEPT !.wants_to_die = TRUE] \in Account
      BY <1>1 DEF Account
    <3> QED BY <3>1, <3>2 DEF ForgetRecon, Account
  <2> HIDE DEF q
  <2>4. SetEnabled(q, FALSE) = [q EXCEPT !.enabled = FALSE]
    BY <2>2, <2>3 DEF SetEnabled, Account
  <2>5. s.delay = 0 /\ s.current_error = "fatal"
    BY <2>2, <2>4 DEF Account
  <2> HIDE DEF s
  <2>6. BacksOff(r, s)
    BY <2>5 DEF BacksOff
  <2> QED BY <2>7, <2>6, OneBacksOff DEF r
<1>5. CASE DisconnectTimer(a)
  <2> DEFINE d == DisconnectKeepingPassword(r)
             s == [d EXCEPT !.failed = (r.current_error = "transient")]
  <2>1. Becomes(a, s)
    BY <1>5 DEF DisconnectTimer, r
  <2>2. s.delay = r.delay
    BY <1>1 DEF DisconnectKeepingPassword, Disconnect, Destroyed, Account
  <2> HIDE DEF s
  <2>3. BacksOff(r, s)
    BY <1>1, <2>2, Unshrunk
  <2> QED BY <2>1, <2>3, OneBacksOff DEF r
<1>6. CASE ReconTimer(a)
  <2>1. Becomes(a, DoSignon(r))
    BY <1>6 DEF ReconTimer, r
  <2>2. BacksOff(r, DoSignon(r))
    BY <1>1, DelayKept, Unshrunk
  <2> QED BY <2>1, <2>2, OneBacksOff DEF r
<1>7. CASE ProtocolCloses(a)
  <2>1. Becomes(a, Disconnect(r))
    BY <1>7 DEF ProtocolCloses, r
  <2>2. BacksOff(r, Disconnect(r))
    BY <1>1, DelayKept, Unshrunk
  <2> QED BY <2>1, <2>2, OneBacksOff DEF r
<1>8. CASE RefusedAfterError(a)
  <2> DEFINE s == [r EXCEPT !.password = Saved(r)]
  <2>1. Becomes(a, s)
    BY <1>8 DEF RefusedAfterError, r
  <2>2. s.delay = r.delay
    BY <1>1 DEF Account
  <2> HIDE DEF s
  <2>3. BacksOff(r, s)
    BY <1>1, <2>2, Unshrunk
  <2> QED BY <2>1, <2>3, OneBacksOff DEF r
<1> QED BY <1>2, <1>3, <1>4, <1>5, <1>6, <1>7, <1>8 DEF Machine

\* The user: an account's delay goes when the account does.
LEMMA UserBacksOff ==
    ASSUME IInv, NEW a \in Accounts, User(a)
    PROVE  \A b \in Accounts : BacksOff(acct[b], acct'[b])
<1> DEFINE r == acct[a]
<1>1. r \in Account /\ r.delay \in Nat
  BY DelayAssumption DEF IInv, Account
<1>2. ~r.listed => r.delay = 0
  BY DEF IInv, Good
<1> HIDE DEF r
<1>3. ASSUME NEW s, Becomes(a, s), \/ s.delay = r.delay
                                   \/ ~r.listed
                                   \/ s.delay = 0 /\ ~s.listed
      PROVE  \A b \in Accounts : BacksOff(acct[b], acct'[b])
  <2>1. CASE s.delay = r.delay
    <3>1. BacksOff(r, s)
      BY <1>1, <2>1, Unshrunk
    <3> QED BY <1>3, <3>1, OneBacksOff DEF r
  <2>2. CASE ~r.listed \/ (s.delay = 0 /\ ~s.listed)
    <3>1. BacksOff(r, s)
      BY <1>2, <2>2 DEF BacksOff
    <3> QED BY <1>3, <3>1, OneBacksOff DEF r
  <2> QED BY <1>3, <2>1, <2>2
<1>4. CASE AddAndRegister(a) \/ AddAndEnable(a)
  <2>1. ~r.listed /\ \E s : Becomes(a, s)
    BY <1>4 DEF AddAndRegister, AddAndEnable, r
  <2> QED BY <1>3, <2>1
<1>5. CASE Modify(a)
  <2>1. PICK p \in BOOLEAN, m \in BOOLEAN, k \in BOOLEAN :
          Becomes(a, [r EXCEPT !.remember = m, !.asks = k, !.password = p /\ m])
    BY <1>5 DEF Modify, r
  <2>2. [r EXCEPT !.remember = m, !.asks = k, !.password = p /\ m].delay = r.delay
    BY <1>1 DEF Account
  <2> QED BY <1>3, <2>1, <2>2
<1>6. CASE Enable(a) \/ Disable(a) \/ ReEnable(a)
  <2>1. PICK t \in Account, v \in BOOLEAN : /\ t.delay = r.delay
                                           /\ Becomes(a, SetEnabled(t, v))
    <3>1. CASE Enable(a)
      <4>1. PICK o \in BOOLEAN : Becomes(a, SetEnabled([r EXCEPT !.online = o], TRUE))
        BY <3>1 DEF Enable, r
      <4>2. /\ [r EXCEPT !.online = o] \in Account
            /\ [r EXCEPT !.online = o].delay = r.delay
        BY <1>1 DEF Account
      <4> QED BY <4>1, <4>2
    <3>2. CASE Disable(a)
      BY <1>1, <3>2 DEF Disable, r
    <3>3. CASE ReEnable(a)
      <4>1. Becomes(a, SetEnabled([r EXCEPT !.current_error = "none"], TRUE))
        BY <3>3 DEF ReEnable, r
      <4>2. /\ [r EXCEPT !.current_error = "none"] \in Account
            /\ [r EXCEPT !.current_error = "none"].delay = r.delay
        BY <1>1 DEF Account
      <4> QED BY <4>1, <4>2
    <3> QED BY <1>6, <3>1, <3>2, <3>3
  <2>2. SetEnabled(t, v).delay = r.delay
    BY <2>1, DelayKept
  <2> QED BY <1>3, <2>1, <2>2
<1>7. CASE Reconnect(a)
  BY <1>1, <1>3, <1>7, DelayKept DEF Reconnect, r
<1>8. CASE SetStatus(a)
  <2>1. PICK o \in BOOLEAN :
          LET s == [r EXCEPT !.online = o] IN
          \E u : /\ u \in {s, Connect(s), Disconnect(s),
                           [s EXCEPT !.password = Saved(r)]}
                /\ Becomes(a, u)
    BY <1>8 DEF SetStatus, r
  <2> DEFINE s == [r EXCEPT !.online = o]
             p == Saved(r)
  <2>2. s \in Account /\ s.delay = r.delay
    BY <1>1 DEF Account
  <2>3. PICK u : /\ u \in {s, Connect(s), Disconnect(s), [s EXCEPT !.password = p]}
                 /\ Becomes(a, u)
    BY <2>1
  <2> HIDE DEF s, p
  <2>4. [s EXCEPT !.password = p].delay = r.delay
    BY <2>2 DEF Account
  <2>5. u.delay = r.delay
    BY <2>2, <2>3, <2>4, DelayKept
  <2> QED BY <1>3, <2>3, <2>5
<1>9. CASE PasswordOK(a)
  <2>1. PICK m \in BOOLEAN :
          Becomes(a, NewConnection([r EXCEPT !.request = "none",
                     !.password = TRUE, !.remember = r.remember \/ m], "login"))
    BY <1>9 DEF PasswordOK, r
  <2> DEFINE m2 == r.remember \/ m
             t == [r EXCEPT !.request = "none", !.password = TRUE, !.remember = m2]
  <2>2. m2 \in BOOLEAN
    OBVIOUS
  <2>3. Becomes(a, NewConnection(t, "login"))
    BY <2>1
  <2> HIDE DEF m2
  <2>4. t \in Account /\ t.delay = r.delay
    BY <1>1, <2>2 DEF Account
  <2> HIDE DEF t
  <2>5. NewConnection(t, "login").delay = r.delay
    BY <2>4, DelayKept
  <2> QED BY <1>3, <2>3, <2>5
<1>10. CASE PasswordCancel(a)
  <2> DEFINE t == [r EXCEPT !.request = "none"]
  <2>1. Becomes(a, SetEnabled(t, FALSE))
    BY <1>10 DEF PasswordCancel, r
  <2>2. t \in Account /\ t.delay = r.delay
    BY <1>1 DEF Account
  <2> HIDE DEF t
  <2>3. SetEnabled(t, FALSE).delay = r.delay
    BY <2>2, DelayKept
  <2> QED BY <1>3, <2>1, <2>3
<1>11. CASE DismissError(a) \/ AskDelete(a) \/ KeepAccount(a)
  <2>1. PICK s \in {[r EXCEPT !.current_error = "none"],
                    [r EXCEPT !.request = "delete"],
                    [r EXCEPT !.request = "none"]} : Becomes(a, s)
    BY <1>11 DEF DismissError, AskDelete, KeepAccount, r
  <2>2. s.delay = r.delay
    BY <1>1 DEF Account
  <2> QED BY <1>3, <2>1, <2>2
<1>12. CASE Delete(a)
  <2> DEFINE s == ForgetRecon(SetEnabled(r, FALSE))
             e == [NoAccount EXCEPT
                     !.state = s.state, !.purpose = s.purpose,
                     !.wants_to_die = s.wants_to_die, !.keepalive = s.keepalive,
                     !.disconnect_timeout = s.disconnect_timeout,
                     !.delay = s.delay, !.timeout = s.timeout]
  <2>1. Becomes(a, e)
    BY <1>12 DEF Delete, r
  <2>2. SetEnabled(r, FALSE) \in Account
    BY <1>1, <1>12, SetEnabledGood DEF IInv, Delete, Good, r
  <2>3. s.delay = 0
    BY <2>2 DEF ForgetRecon, Account
  <2> HIDE DEF s
  <2>4. e.delay = 0 /\ ~e.listed
    BY <2>3 DEF NoAccount
  <2> QED BY <1>3, <2>1, <2>4
<1> QED BY <1>4, <1>5, <1>6, <1>7, <1>8, <1>9, <1>10, <1>11, <1>12 DEF User

\* What concerns all accounts: only the network's return takes delays back.
LEMMA AllBackOff ==
    ASSUME IInv, Startup \/ Network \/ UNCHANGED vars, NEW b \in Accounts
    PROVE  \/ BacksOff(acct[b], acct'[b])
           \/ NetworkConnected /\ acct'[b].delay = 0
<1>1. acct[b] \in Account /\ acct[b].delay \in Nat
  BY DelayAssumption DEF IInv, Account
<1>2. CASE Startup
  <2>1. acct'[b] \in {acct[b], Connect(acct[b])}
    BY <1>2 DEF Startup
  <2> QED BY <1>1, <2>1, DelayKept, Unshrunk
<1>3. CASE NetworkConnected
  <2> DEFINE s == ForgetRecon(acct[b])
  <2>1. s \in Account /\ s.delay = 0
    BY <1>1, DelayForgotten
  <2>2. acct'[b] \in {acct[b], s, DoSignon(s)}
    BY <1>3 DEF NetworkConnected
  <2> HIDE DEF s
  <2>3. acct'[b].delay = 0 \/ acct'[b] = acct[b]
    BY <2>1, <2>2, DelayKept
  <2> QED BY <1>1, <1>3, <2>3, Unshrunk
<1>4. CASE NetworkDisconnected
  <2>1. acct'[b] \in {acct[b], DisconnectKeepingPassword(acct[b])}
    BY <1>4 DEF NetworkDisconnected
  <2> QED BY <1>1, <2>1, DelayKept, Unshrunk
<1>5. CASE NetworkUnknown \/ UNCHANGED vars
  BY <1>1, <1>5, Unshrunk DEF NetworkUnknown, vars
<1> QED BY <1>2, <1>3, <1>4, <1>5 DEF Network

\* gtkconn.c's back-off: no handler makes the delay of an account's retries
\* shrink, but those of a success, a fatal error, a deletion and the network's
\* return, which drop the whole entry.
THEOREM DelaysBackOff == Spec => BackOff
<1>1. IInv /\ [Next]_vars => \A a \in Accounts :
            acct[a].delay > 0 /\ acct[a].delay' < acct[a].delay =>
                /\ acct[a].delay' = 0
                /\ \/ acct[a].state' = "connected"
                   \/ acct[a].current_error' = "fatal"
                   \/ ~acct[a].listed'
                   \/ NetworkConnected
  <2> SUFFICES ASSUME IInv, [Next]_vars, NEW a \in Accounts
               PROVE  \/ BacksOff(acct[a], acct'[a])
                      \/ NetworkConnected /\ acct'[a].delay = 0
    BY DEF BacksOff
  <2> QED BY MachineBacksOff, UserBacksOff, AllBackOff DEF Next
<1> QED BY <1>1, Inductive, PTL DEF BackOff, Spec
=============================================================================
