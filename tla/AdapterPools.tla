---------------------------- MODULE AdapterPools ----------------------------
(***************************************************************************)
(* What the adapters keep for the calls to come: the HTTP/2 connections of *)
(* XHTTP (XmuxPool), the plugin processes of SIP003 (Sip003Pool), the smux *)
(* sessions of kcptun (KcptunPool), the clients of Hysteria2 (Hy2Pool).    *)
(* They share no state, so a behaviour is of one pool.  Each is looked up  *)
(* under a lock, made without it, and added under it again; what is made   *)
(* may die at any time.                                                    *)
(***************************************************************************)
EXTENDS Integers, Sequences, FiniteSets, SequencesExt

CONSTANTS Calls,            (* calls of XmuxPool; Hy2Pool's, UDP ones too   *)
          Pair,             (* those of the other pools                     *)
          Configs, MaxClients, MaxPosts,
          Keys, KeyChoices, Ports, Children, Locks, MaxStarts, Contested, None,
          Conn, AutoExpire, MaxSessions,
          PoolSize, MaxHy2Clients, MaxNext

VARIABLES of,
          pc, client, pool, lock, closed, expired, made,
          config, clients, opened, open_usage, left_usage, left_requests,
          upload, download, posts,                           (* XmuxPool    *)
          child, foreign, reserved, locks, holder, key, arc, proc, port,
          attempt, starts,                                   (* Sip003Pool  *)
          slot, rr, scavenge_due, idx, session,              (* KcptunPool  *)
          failed                                             (* Hy2Pool     *)

Xmux == INSTANCE XmuxPool
Sip003 == INSTANCE Sip003Pool WITH Calls <- Pair
Kcptun == INSTANCE KcptunPool WITH Calls <- Pair
Hy2 == INSTANCE Hy2Pool WITH TcpCalls <- Pair, UdpCalls <- Calls \ Pair,
                             MaxClients <- MaxHy2Clients

ASSUME PoolsAssumption ==
  /\ Pair \subseteq Calls
  /\ Xmux!XmuxAssumption /\ Sip003!Sip003Assumption
  /\ Kcptun!KcptunAssumption /\ Hy2!Hy2Assumption

(* The variables of one pool only, and those that more than one has.       *)
xmuxOnly == <<config, clients, opened, open_usage, left_usage, left_requests,
              upload, download, posts>>
sip003Only == <<child, foreign, reserved, locks, holder, key, arc, proc, port,
                attempt, starts>>
kcptunOnly == <<slot, rr, scavenge_due, idx, session>>
vars == <<of, pc, client, pool, lock, closed, expired, made,
          xmuxOnly, sip003Only, kcptunOnly, failed>>

Unused == "unused"
NoXmux ==
  /\ config = Unused /\ clients = Unused /\ opened = Unused
  /\ open_usage = Unused /\ left_usage = Unused /\ left_requests = Unused
  /\ upload = Unused /\ download = Unused /\ posts = Unused
NoSip003 ==
  /\ child = Unused /\ foreign = Unused /\ reserved = Unused /\ locks = Unused
  /\ holder = Unused /\ key = Unused /\ arc = Unused /\ proc = Unused
  /\ port = Unused /\ attempt = Unused /\ starts = Unused
NoKcptun ==
  /\ slot = Unused /\ rr = Unused /\ scavenge_due = Unused
  /\ idx = Unused /\ session = Unused
NoHy2 == failed = Unused

Init ==
  \/ /\ of = "xmux" /\ Xmux!Init /\ NoSip003 /\ NoKcptun /\ NoHy2
     /\ pool = Unused /\ made = Unused
  \/ /\ of = "sip003" /\ Sip003!Init /\ NoXmux /\ NoKcptun /\ NoHy2
     /\ client = Unused /\ lock = Unused /\ closed = Unused
     /\ expired = Unused /\ made = Unused
  \/ /\ of = "kcptun" /\ Kcptun!Init /\ NoXmux /\ NoSip003 /\ NoHy2
     /\ client = Unused /\ pool = Unused
  \/ /\ of = "hy2" /\ Hy2!Init /\ NoXmux /\ NoSip003 /\ NoKcptun
     /\ lock = Unused /\ closed = Unused /\ expired = Unused

OfXmux == of = "xmux"
          /\ UNCHANGED <<of, pool, made, sip003Only, kcptunOnly, failed>>
OfSip003 == of = "sip003"
            /\ UNCHANGED <<of, client, lock, closed, expired, made, xmuxOnly,
                           kcptunOnly, failed>>
OfKcptun == of = "kcptun"
            /\ UNCHANGED <<of, client, pool, xmuxOnly, sip003Only, failed>>
OfHy2 == of = "hy2"
         /\ UNCHANGED <<of, lock, closed, expired, xmuxOnly, sip003Only,
                        kcptunOnly>>

Next ==
  \/ OfXmux /\ Xmux!Next
  \/ OfSip003 /\ Sip003!Next
  \/ OfKcptun /\ Kcptun!Next
  \/ OfHy2 /\ Hy2!Next

(***************************************************************************)
(* Runnable calls are polled, timers fire, and tokio's mutexes serve their *)
(* waiters in order, so a step of a call that waits for one is taken if it *)
(* is possible again and again.  A connect to a local port ends, one way   *)
(* or the other.  Nothing is assumed of what a call awaits from a server   *)
(* or a library: TCP, TLS and the handshake of HTTP/2, which have no       *)
(* timeout, and the sessions and streams of kcptun.  Nor is anything       *)
(* assumed of the plugins and of the sessions once they are up.            *)
(***************************************************************************)
CallGoesOn(x) ==
  \/ OfXmux /\ Xmux!Proceeds(x)
  \/ x \in Pair /\ OfSip003 /\ (Sip003!CallStep(x) \/ Sip003!Lock(x))
  \/ x \in Pair /\ OfKcptun /\ Kcptun!Proceeds(x)

(* A call waits for the other end, with a lock in its hand unless it is    *)
(* kcptun's first open.                                                    *)
Connecting(x) ==
  \/ of = "xmux" /\ pc[x] = "connect"
  \/ of = "kcptun" /\ x \in Pair /\ pc[x] \in {"create", "recreate", "open", "reopen"}

Fairness == \A x \in Calls : SF_vars(CallGoesOn(x))

Spec == Init /\ [][Next]_vars /\ Fairness

-----------------------------------------------------------------------------
Settled ==
  CASE of = "kcptun" -> {"up", "down", "err"} [] of = "hy2" -> {"ok", "err"}
    [] OTHER -> {"open", "closed", "err"}

(* If no attempt to connect hangs, every call gets something from its pool *)
(* or an error, whatever fails on the way and whoever else makes the same: *)
(* no path keeps a lock, and the retries end.  (One that hangs keeps the   *)
(* manager's mutex and with it every call of the server.  Hysteria2 has no *)
(* lock to wait for, and the library's calls are not assumed to end.)      *)
EveryCallSettles ==
  (\A x \in Calls : []<>~Connecting(x))
    => <>(of # "hy2" => \A x \in DOMAIN pc : pc[x] \in Settled)

(* open_usage is the number of bridges on the connection plus what the two *)
(* failure paths leak, whatever the order in which calls and tasks of      *)
(* several bridges move it: it never falls below the bridges that run.     *)
UsageIsAccounted == of = "xmux" => Xmux!UsageIsAccounted

(* Calls that look, make one and look again do not fill a pool beyond its  *)
(* size, and none is used beyond its budget: XHTTP keeps c_max_reuse_times *)
(* always and max_connections if max_concurrency is 0 (otherwise a pool    *)
(* whose clients are all busy grows); Hysteria2 keeps HY2_CLIENT_POOL_SIZE,*)
(* each once.                                                              *)
PoolBounded ==
  /\ of = "xmux" => Xmux!PoolBounded /\ Xmux!ReuseBudgetKept
  /\ of = "hy2" => Hy2!PoolWithinSize

(* One start per key at a time, although the table of create locks drops   *)
(* and remakes the locks, and the process that came up is the one the pool *)
(* gets: or_insert_with never finds another, which would throw it away.    *)
StartedOnce ==
  of = "sip003" => Sip003!OneStarterPerKey /\ Sip003!NewProcessIsPooled

(* Two starts never have the same port reserved, although the system names *)
(* one twice as soon as the first has dropped its listener.                *)
StartsHaveOwnPort == of = "sip003" => Sip003!StartsHaveOwnPort

(* A port is reserved exactly while a start needs it; no way out of a      *)
(* start, successful or not, leaves it behind.                             *)
NoReservationLeaks == of = "sip003" => Sip003!NoReservationLeaks

(* Calls that find the same slot of kcptun empty fill it once: apart from  *)
(* a retry, which overrides it, a slot whose session can be reused keeps it*)
(* until the session is closed or old.                                     *)
UsableReplacedOnlyByRetry == [][of = "kcptun" => Kcptun!ReplacesOnlyForRetry]_vars

(* The one retry of a Hysteria2 TCP call never meets the client that       *)
(* failed, also when other calls add and remove clients in between.        *)
RetryUsesAnotherClient == of = "hy2" => Hy2!RetryUsesAnotherClient
=============================================================================
