------------------------------ MODULE Accounts ------------------------------
(***************************************************************************)
(* Accounts and their connections: libpurple/account.c, connection.c and   *)
(* prpl.c, the network watch of network.c, and the automatic reconnection  *)
(* of pidgin/gtkconn.c, driven by the user through gtkaccount.c and the    *)
(* error dialogs of gtkblist.c.                                            *)
(*                                                                         *)
(* Everything runs in one main loop.  An action is one dispatch: a click,  *)
(* a timer, a message of the protocol or of NetworkManager, with every     *)
(* handler it calls on the way.  An account is a record of its own fields, *)
(* those of its PurpleConnection (gc), and its PidginAutoRecon.  The       *)
(* operators marked "slip" are wrong versions of the one that follows,     *)
(* each a mistake some property below must catch; nothing else uses them.  *)
(***************************************************************************)
EXTENDS Integers

CONSTANTS
    Accounts,
    InitialDelays,  \* what g_random_int_range may return for a first retry
    MaxDelay        \* MAX_RECON_DELAY

ASSUME DelayAssumption == /\ MaxDelay \in Nat \ {0}
                          /\ InitialDelays \subseteq 1..MaxDelay

VARIABLES
    acct,       \* the accounts
    nm_state,   \* what NetworkManager last said, "absent" when the program
                \* was built without HAVE_NETWORKMANAGER
    started     \* the saved statuses were restored at startup

vars == <<acct, nm_state, started>>

Account == [
    listed   : BOOLEAN,     \* in the list "accounts"; if not, there is no
                            \* account, only what it may have left behind
    enabled  : BOOLEAN,     \* "auto-login"
    online   : BOOLEAN,     \* the active status is an online one
    password : BOOLEAN,     \* a password is known
    remember : BOOLEAN,     \* remember_pass
    asks     : BOOLEAN,     \* its protocol has neither OPT_PROTO_NO_PASSWORD
                            \* nor OPT_PROTO_PASSWORD_OPTIONAL
    request  : {"none", "password", "delete"},  \* open dialog of this handle
    current_error : {"none", "transient", "fatal"},
    state    : {"disconnected", "connecting", "connected"},  \* of the gc
    purpose  : {"login", "register"},
    wants_to_die       : BOOLEAN,
    keepalive          : BOOLEAN,   \* the keep-alive timer runs
    disconnect_timeout : BOOLEAN,   \* purple_connection_disconnect_cb is due
    delay    : 0..MaxDelay, \* auto_reconns entry, 0 when there is none
    timeout  : BOOLEAN,     \* the entry's do_signon timer runs
    failed   : BOOLEAN ]    \* history: the last session ended in a transient
                            \* error, and no login was tried since

Live(r) == r.state # "disconnected"

NoAccount == [
    listed |-> FALSE, enabled |-> FALSE, online |-> FALSE,
    password |-> FALSE, remember |-> FALSE, asks |-> FALSE, request |-> "none",
    current_error |-> "none", state |-> "disconnected", purpose |-> "login",
    wants_to_die |-> FALSE, keepalive |-> FALSE, disconnect_timeout |-> FALSE,
    delay |-> 0, timeout |-> FALSE, failed |-> FALSE]

-----------------------------------------------------------------------------
(* The functions the handlers share, as functions of an account's record.  *)

\* Slip: the pending disconnect outlives the connection.
DestroyedButTimer(r) == [r EXCEPT !.state = "disconnected", !.purpose = "login",
                                  !.wants_to_die = FALSE, !.keepalive = FALSE]

\* _purple_connection_destroy: the keep-alive timer and the pending disconnect
\* go with the connection.
Destroyed(r) == [r EXCEPT !.state = "disconnected", !.purpose = "login",
                          !.wants_to_die = FALSE, !.keepalive = FALSE,
                          !.disconnect_timeout = FALSE]

\* The password, if it is one that is saved.
Saved(r) == r.password /\ r.remember

\* purple_account_disconnect: an unsaved password is forgotten.
Disconnect(r) ==
    IF Live(r) THEN [Destroyed(r) EXCEPT !.password = Saved(r)] ELSE r

\* The callers that save the password around purple_account_disconnect.
DisconnectKeepingPassword(r) ==
    [Disconnect(r) EXCEPT !.password = r.password]

\* _purple_connection_new, once past the password check.
NewConnection(r, purpose) ==
    IF Live(r) THEN r
    ELSE [r EXCEPT !.state = "connecting", !.purpose = purpose,
                   !.wants_to_die = (purpose = "register"), !.failed = FALSE]

\* Slip: without a password nothing happens.
ConnectUnasked(r) ==
    IF r.enabled /\ (r.password \/ ~r.asks) THEN NewConnection(r, "login") ELSE r

\* purple_account_connect: without a password that the protocol needs the user
\* is asked, and any earlier dialog of the account (to ask, or to confirm its
\* deletion) closed.
Connect(r) ==
    IF ~r.enabled THEN r
    ELSE IF r.asks /\ ~r.password
    THEN [r EXCEPT !.request = "password", !.failed = FALSE]
    ELSE NewConnection(r, "login")

\* purple_account_set_enabled: a connection that wants to die is let be.
SetEnabled(r, value) ==
    LET s == [r EXCEPT !.enabled = value]
    IN  IF r.wants_to_die THEN s
        ELSE IF value THEN IF r.online THEN Connect(s) ELSE s
        ELSE Disconnect(s)

\* g_hash_table_remove(auto_reconns, account); free_auto_recon stops the timer.
ForgetRecon(r) == [r EXCEPT !.delay = 0, !.timeout = FALSE]

\* do_signon, in gtkconn.c
DoSignon(r) == LET s == [r EXCEPT !.timeout = FALSE]
               IN  IF r.online THEN Connect(s) ELSE s

\* Slips: the delay is doubled without limit, or never.
NextDelaysUnbounded(r) == IF r.delay = 0 THEN InitialDelays ELSE {2 * r.delay}

NextDelaysAfresh(r) == InitialDelays

\* The delays pidgin_connection_report_disconnect_reason may choose.
NextDelays(r) ==
    IF r.delay = 0 THEN InitialDelays
    ELSE {IF 2 * r.delay <= MaxDelay THEN 2 * r.delay ELSE MaxDelay}

\* purple_network_is_available
NetworkIsAvailable(state) == state # "down"

-----------------------------------------------------------------------------
(* What the protocol and the timers do.                                    *)

\* Each handler of one account replaces its record.
Becomes(a, r) == /\ started
                 /\ acct' = [acct EXCEPT ![a] = r]
                 /\ UNCHANGED <<nm_state, started>>

\* purple_connection_set_state(gc, PURPLE_CONNECTED), with the UI's handler
\* (pidgin_connection_connected) and account.c's (signed_on_cb).  XMPP calls it
\* for a registration too, to get rid of the connecting display.
SignedOn(a) ==
    LET r == acct[a] IN
    /\ r.listed /\ r.state = "connecting"
    /\ Becomes(a, [ForgetRecon(r) EXCEPT !.state = "connected",
                        !.keepalive = TRUE, !.current_error = "none"])

\* purple_connection_error_reason with a transient reason, the UI's
\* report_disconnect_reason and account.c's connection_error_cb.  A connection
\* that has reported one error reports no other.
TransientError(a) ==
    LET r == acct[a] IN
    /\ r.listed /\ Live(r) /\ ~r.disconnect_timeout
    /\ \E d \in NextDelays(r) :
          Becomes(a, [r EXCEPT !.wants_to_die = FALSE, !.delay = d,
                               !.timeout = TRUE, !.current_error = "transient",
                               !.disconnect_timeout = TRUE])

\* Slips: an earlier retry is kept, or the disconnect never set.
FatalErrorKeepsRetry(a) ==
    LET r == acct[a] IN
    /\ r.listed /\ Live(r) /\ ~r.disconnect_timeout
    /\ Becomes(a, [r EXCEPT !.wants_to_die = TRUE, !.enabled = FALSE,
                     !.current_error = "fatal", !.disconnect_timeout = TRUE])

FatalErrorUnscheduled(a) ==
    LET r == acct[a] IN
    /\ r.listed /\ Live(r) /\ ~r.disconnect_timeout
    /\ Becomes(a, [ForgetRecon(r) EXCEPT !.wants_to_die = TRUE,
                     !.enabled = FALSE, !.current_error = "fatal"])

\* The same with a fatal reason: retries are forgotten, the account disabled.
\* Before it reports that a password was refused (or that the user has signed on
\* elsewhere) a protocol clears the password, unless it is saved.
FatalError(a) ==
    LET r == acct[a]
        s == [r EXCEPT !.wants_to_die = TRUE] IN
    /\ r.listed /\ Live(r) /\ ~r.disconnect_timeout
    /\ \E password \in {r.password, Saved(r)} :
          Becomes(a, [SetEnabled(ForgetRecon(s), FALSE) EXCEPT
                        !.password = password,
                        !.current_error = "fatal", !.disconnect_timeout = TRUE])

\* The refusal comes behind another error, in the same data: it clears the
\* password all the same, and is then not reported.
RefusedAfterError(a) ==
    LET r == acct[a] IN
    /\ r.listed /\ r.disconnect_timeout
    /\ Becomes(a, [r EXCEPT !.password = Saved(r)])

\* purple_connection_disconnect_cb, at the next turn of the main loop.
DisconnectTimer(a) ==
    LET r == acct[a] IN
    /\ r.listed /\ r.disconnect_timeout
    /\ Becomes(a, [DisconnectKeepingPassword(r) EXCEPT
                        !.failed = (r.current_error = "transient")])

\* do_signon as a timer.  It is set at least 8 s after the error that arms the
\* disconnect timer of 0 s, which therefore comes first.
ReconTimer(a) ==
    LET r == acct[a] IN
    /\ r.listed /\ r.timeout /\ ~r.disconnect_timeout
    /\ Becomes(a, DoSignon(r))

\* The protocol ends its session with purple_account_disconnect: XMPP when a
\* registration is over, MXit and SILC also on logout, detach and cancel.
ProtocolCloses(a) ==
    /\ acct[a].listed /\ Live(acct[a])
    /\ Becomes(a, Disconnect(acct[a]))

-----------------------------------------------------------------------------
(* What the user does.                                                     *)

\* The "Add Account" dialog, to register a new account...
AddAndRegister(a) ==
    LET r == acct[a] IN
    /\ ~r.listed /\ ~Live(r)
    /\ \E password, remember, asks, online \in BOOLEAN :
          Becomes(a, NewConnection(
              [NoAccount EXCEPT !.listed = TRUE, !.online = online,
                                !.password = password, !.remember = remember,
                                !.asks = asks],
              "register"))

\* ... or to sign on to an existing one.
AddAndEnable(a) ==
    LET r == acct[a] IN
    /\ ~r.listed /\ ~Live(r)
    /\ \E password, remember, asks, online \in BOOLEAN :
          Becomes(a, SetEnabled(
              [NoAccount EXCEPT !.listed = TRUE, !.online = online,
                                !.password = password, !.remember = remember,
                                !.asks = asks],
              TRUE))

\* The "Modify Account" dialog keeps a password only if it is to be saved, and
\* lets the protocol of an account be changed that is offline.
Modify(a) ==
    LET r == acct[a] IN
    /\ r.listed
    /\ \E password, remember, asks \in BOOLEAN :
          /\ Live(r) => asks = r.asks
          /\ Becomes(a, [r EXCEPT !.remember = remember, !.asks = asks,
                                  !.password = password /\ remember])

\* The check box of the accounts window: on, with the current saved status...
Enable(a) ==
    LET r == acct[a] IN
    /\ r.listed /\ ~r.enabled
    /\ \E online \in BOOLEAN :
          Becomes(a, SetEnabled([r EXCEPT !.online = online], TRUE))

\* ... and off.
Disable(a) ==
    /\ acct[a].listed /\ acct[a].enabled
    /\ Becomes(a, SetEnabled(acct[a], FALSE))

\* The buttons of the error dialog, shown while there is an error: "Re-enable",
ReEnable(a) ==
    LET r == acct[a] IN
    /\ r.listed /\ r.current_error # "none"
    /\ Becomes(a, SetEnabled([r EXCEPT !.current_error = "none"], TRUE))

\* "Reconnect", and closing the dialog (which a click also does, when idle).
Reconnect(a) ==
    /\ acct[a].listed /\ acct[a].current_error # "none"
    /\ Becomes(a, Connect(acct[a]))

DismissError(a) ==
    /\ acct[a].listed /\ acct[a].current_error # "none"
    /\ Becomes(a, [acct[a] EXCEPT !.current_error = "none"])

\* The user picks a status: do_prpl_change_account_status, which hears only of
\* enabled accounts.
SetStatus(a) ==
    LET r == acct[a] IN
    /\ r.listed
    /\ \E online \in BOOLEAN :
          LET s == [r EXCEPT !.online = online]
          IN  Becomes(a,
                IF ~r.enabled THEN s
                ELSE IF online
                     THEN IF ~Live(r) /\ NetworkIsAvailable(nm_state)
                          THEN Connect(s) ELSE s
                ELSE IF Live(r) THEN Disconnect(s)
                ELSE [s EXCEPT !.password = Saved(r)])

\* request_password_ok_cb and request_password_cancel_cb
PasswordOK(a) ==
    LET r == acct[a] IN
    /\ r.listed /\ r.request = "password"
    /\ \E remember \in BOOLEAN :
          Becomes(a, NewConnection(
              [r EXCEPT !.request = "none", !.password = TRUE,
                        !.remember = r.remember \/ remember], "login"))

PasswordCancel(a) ==
    LET r == acct[a] IN
    /\ r.listed /\ r.request = "password"
    /\ Becomes(a, SetEnabled([r EXCEPT !.request = "none"], FALSE))

\* The accounts window asks before it deletes; the question closes whatever
\* else was asked about the account.
AskDelete(a) ==
    /\ acct[a].listed
    /\ Becomes(a, [acct[a] EXCEPT !.request = "delete"])

KeepAccount(a) ==
    /\ acct[a].listed /\ acct[a].request = "delete"
    /\ Becomes(a, [acct[a] EXCEPT !.request = "none"])

\* Slip: the retry of a deleted account stays.
DeleteKeepsRetry(a) ==
    LET r == acct[a]
        s == SetEnabled(r, FALSE) IN
    /\ r.listed /\ r.request = "delete"
    /\ Becomes(a, [NoAccount EXCEPT
            !.state = s.state, !.purpose = s.purpose,
            !.wants_to_die = s.wants_to_die, !.keepalive = s.keepalive,
            !.disconnect_timeout = s.disconnect_timeout,
            !.delay = s.delay, !.timeout = s.timeout])

\* do_purple_accounts_delete: disable, close the dialogs, remove from the list
\* (which clears the error and, by account_removed_cb, the retry), destroy.
\* Of the account nothing is left but a connection it did not close.
Delete(a) ==
    LET r == acct[a]
        s == ForgetRecon(SetEnabled(r, FALSE)) IN
    /\ r.listed /\ r.request = "delete"
    /\ Becomes(a, [NoAccount EXCEPT
            !.state = s.state, !.purpose = s.purpose,
            !.wants_to_die = s.wants_to_die, !.keepalive = s.keepalive,
            !.disconnect_timeout = s.disconnect_timeout,
            !.delay = s.delay, !.timeout = s.timeout])

-----------------------------------------------------------------------------
(* What concerns all accounts.                                             *)

\* purple_accounts_restore_current_statuses, once, at startup.
Startup ==
    /\ ~started
    /\ started' = TRUE
    /\ acct' = [a \in Accounts |->
                  IF /\ acct[a].listed /\ acct[a].enabled /\ acct[a].online
                     /\ NetworkIsAvailable(nm_state)
                  THEN Connect(acct[a]) ELSE acct[a]]
    /\ UNCHANGED nm_state

Active(r) == r.listed /\ r.enabled

\* nm_update_state, to NM_STATE_CONNECTED (_GLOBAL) or, "limited", to
\* NM_STATE_CONNECTED_LOCAL or _SITE: pidgin_connection_network_connected.
NetworkConnected ==
    /\ nm_state # "absent" /\ started
    /\ nm_state' \in {"connected", "limited"}
    /\ acct' = [a \in Accounts |->
                  LET s == ForgetRecon(acct[a])
                  IN  IF ~Active(acct[a]) THEN acct[a]
                      ELSE IF Live(s) THEN s ELSE DoSignon(s)]
    /\ UNCHANGED started

\* nm_update_state, to a state without network.  The UI hears of it only when
\* the network was "connected" or unknown before.
NetworkDisconnected ==
    /\ nm_state # "absent" /\ started
    /\ nm_state' = "down"
    /\ acct' = IF nm_state \notin {"connected", "unknown"} THEN acct
               ELSE [a \in Accounts |->
                        IF Active(acct[a])
                        THEN DisconnectKeepingPassword(acct[a]) ELSE acct[a]]
    /\ UNCHANGED started

\* nm_update_state, to NM_STATE_UNKNOWN, as when NetworkManager has gone away:
\* nobody hears of it.
NetworkUnknown ==
    /\ nm_state # "absent" /\ started
    /\ nm_state' = "unknown"
    /\ UNCHANGED <<acct, started>>

-----------------------------------------------------------------------------
\* The accounts in accounts.xml, where a password is only kept if remembered.
Loaded(x) ==
    [NoAccount EXCEPT !.listed = TRUE, !.enabled = x.enabled,
                      !.online = x.online, !.password = x.password,
                      !.remember = x.password, !.asks = x.asks,
                      !.current_error = x.error]

LoadedAccounts ==
    {Loaded(x) : x \in [enabled : BOOLEAN, online : BOOLEAN, password : BOOLEAN,
                        asks : BOOLEAN, error : {"none", "transient", "fatal"}]}

\* purple_network_is_available asks NetworkManager for its state when nothing
\* has been heard of it.
NetworkStates == {"absent", "unknown", "connected", "limited", "down"}

Init ==
    /\ acct \in [Accounts -> {NoAccount} \cup LoadedAccounts]
    /\ nm_state \in NetworkStates
    /\ started = FALSE

\* The steps no user takes.
Machine(a) ==
    \/ SignedOn(a) \/ TransientError(a) \/ FatalError(a)
    \/ RefusedAfterError(a) \/ DisconnectTimer(a) \/ ReconTimer(a)

User(a) ==
    \/ AddAndRegister(a) \/ AddAndEnable(a) \/ Modify(a)
    \/ Enable(a) \/ Disable(a) \/ ReEnable(a) \/ Reconnect(a)
    \/ DismissError(a) \/ SetStatus(a) \/ PasswordOK(a) \/ PasswordCancel(a)
    \/ AskDelete(a) \/ KeepAccount(a) \/ Delete(a)

Network == NetworkConnected \/ NetworkDisconnected \/ NetworkUnknown

Next ==
    \/ Startup
    \/ \E a \in Accounts : Machine(a) \/ ProtocolCloses(a) \/ User(a)
    \/ Network

\* The main loop dispatches every timer that is due.
Fairness == \A a \in Accounts : /\ WF_vars(DisconnectTimer(a))
                                /\ WF_vars(ReconTimer(a))

Spec == Init /\ [][Next]_vars /\ Fairness

-----------------------------------------------------------------------------
(* Properties.                                                             *)

\* Type invariant.
TypeOK ==
    /\ acct \in [Accounts -> Account]
    /\ nm_state \in NetworkStates
    /\ started \in BOOLEAN

\* Every timer of an account belongs to something that will stop it: the
\* pending disconnect and the keep-alive to the connection (a disconnect timer
\* that survived _purple_connection_destroy would kill the next session), the
\* do_signon timer to an auto_reconns entry.
TimersHaveOwners ==
    \A a \in Accounts :
        /\ acct[a].disconnect_timeout => Live(acct[a])
        /\ acct[a].keepalive <=> acct[a].state = "connected"
        /\ acct[a].timeout => acct[a].delay > 0

\* purple_account_set_enabled leaves a connection alone that wants to die; this
\* is only right because such a connection is registering, or has a pending
\* disconnect: otherwise disabling the account would not take it offline.
DyingIsTemporary ==
    \A a \in Accounts :
        acct[a].wants_to_die =>
            /\ Live(acct[a])
            /\ acct[a].purpose = "register" \/ acct[a].disconnect_timeout

\* After an error that a new attempt cannot cure (a wrong password, a rejected
\* certificate) the account is not tried again by itself, even if a retry for
\* an earlier, transient error was already set.
FatalNeverRetries ==
    \A a \in Accounts :
        acct[a].current_error = "fatal" => ~acct[a].timeout

\* An account that a transient error took offline has its retry set, as long
\* as the user wants it online.
RetryIsSet ==
    \A a \in Accounts :
        LET r == acct[a] IN
        r.failed /\ r.listed /\ r.enabled /\ r.online /\ ~Live(r) => r.timeout

\* Deleting an account takes its retry and its dialogs along, and leaves at
\* most a connection that wanted to die.
DeletedIsForgotten ==
    \A a \in Accounts :
        LET r == acct[a] IN
        ~r.listed => /\ r.delay = 0 /\ ~r.timeout /\ r.request = "none"
                     /\ Live(r) => r.wants_to_die

\* "Disable the account before blowing it out of the water": once an account
\* is destroyed, no connection is left that points to it.
NothingOutlivesAccount ==
    \A a \in Accounts : ~acct[a].listed => ~Live(acct[a])

\* What fails or reconnects by itself does not make the user type a password
\* again: an unsaved password survives transient errors, the disconnects they
\* schedule, retries and the network going away, and a saved one survives every
\* failure.  Only where the server refuses the login, which ends the session for
\* good or comes while an error is ending it, is an unsaved password cleared.
PasswordSurvivesFailure ==
    [][ (\E a \in Accounts : Machine(a)) \/ Network \/ Startup =>
            \A a \in Accounts :
                acct[a].password /\ ~acct[a].password' =>
                    /\ ~acct[a].remember
                    /\ Live(acct[a]) /\ acct[a].disconnect_timeout'
                    /\ \/ acct[a].disconnect_timeout
                       \/ acct[a].current_error' = "fatal" ]_vars

\* The delays of the attempts never shrink until a login succeeds, an error is
\* fatal, the account is removed, or NetworkManager reports a network.
BackOff ==
    [][ \A a \in Accounts :
            acct[a].delay > 0 /\ acct[a].delay' < acct[a].delay =>
                /\ acct[a].delay' = 0
                /\ \/ acct[a].state' = "connected"
                   \/ acct[a].current_error' = "fatal"
                   \/ ~acct[a].listed'
                   \/ NetworkConnected ]_vars

\* The protocol has signed on after the error that scheduled the disconnect of
\* its session: the UI has dropped the retry, and the disconnect still comes.
SignedOnAfterError(r) ==
    r.state = "connected" /\ r.disconnect_timeout /\ ~r.timeout

\* A session lost to a transient error is tried again, or its user asked for a
\* password, unless the user takes the account offline, disables or deletes it
\* (where no NetworkManager can throw the retry away, and the protocol does not
\* by signing on after its error).
LostSessionIsRetried ==
    \A a \in Accounts :
        /\ nm_state = "absent"
        /\ acct[a].disconnect_timeout /\ acct[a].current_error = "transient"
        ~>
            \/ acct[a].state = "connecting" /\ ~acct[a].disconnect_timeout
            \/ acct[a].request = "password"
            \/ ~acct[a].enabled \/ ~acct[a].online \/ ~acct[a].listed
            \/ SignedOnAfterError(acct[a])
=============================================================================
