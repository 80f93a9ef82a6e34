---------------------------- MODULE NetworkRoute ----------------------------
(***************************************************************************)
(* The route to the internet (src/src/connectivity/network_route.cpp):     *)
(* Wi-Fi when a probe answers, the phone over BLE otherwise.  The main     *)
(* loop and the network workers share it; a spin lock ("selecting") holds  *)
(* one selection at a time.  After a talk over the phone the main loop     *)
(* keeps the radio on for some seconds, for the next question.             *)
(*                                                                         *)
(* The radio and the Wi-Fi driver appear as what the code can see of them: *)
(* BleLifecycle models what PhoneRelay::begin() and stop() do.  The time   *)
(* since the last failure (45 s) and the time left (budgets) decide which  *)
(* branches a selection may take: each choice here is open.                *)
(***************************************************************************)

CONSTANT Workers \* the jobs that may own a session

VARIABLES
    enabled,   \* the setting: the phone may be used
    phone,     \* the phone is the route selected
    retain,    \* the radio stays on after a session: "no", "wait", "due"
    selecting, \* who holds the lock, or "none"
    radio,     \* PhoneRelay: "off", "on" (waiting for the phone), "ready"
    wifi       \* WiFi.status() = WL_CONNECTED

routeVars == <<enabled, phone, retain, selecting, radio, wifi>>

RouteTypeOK ==
    /\ enabled \in BOOLEAN /\ phone \in BOOLEAN /\ wifi \in BOOLEAN
    /\ retain \in {"no", "wait", "due"} /\ radio \in {"off", "on", "ready"}
    /\ selecting \in Workers \cup {"none"}

RouteInit ==
    /\ phone = FALSE /\ retain = "no" /\ selecting = "none"
    /\ radio = "off" /\ wifi = FALSE

Online == IF phone THEN radio = "ready" ELSE wifi

-----------------------------------------------------------------------------
(* A selection ends in one of several routes.                                *)

Route(ok, p, r, w) == [ok |-> ok, phone |-> p, radio |-> r, wifi |-> w]

\* selectPhone(): begin() announces, waitReady() waits for the phone.
ViaPhone(p, w) ==
    CASE ~enabled -> {Route(FALSE, p, radio, w)}
      [] enabled /\ radio = "ready" -> {Route(TRUE, TRUE, radio, w)}
      [] OTHER -> {Route(TRUE, TRUE, "ready", w), \* the phone came
                   Route(FALSE, p, "on", w),      \* it did not, in time
                   Route(FALSE, p, radio, w)}     \* no time left, begin() failed

\* WifiManager::connect(): favourite, then a scan, one total budget.
Associated(searching) == IF searching THEN {wifi, TRUE} ELSE {wifi}

\* selectRoute(): a ready phone is not left for a scan, nor probed against a
\* Wi-Fi that failed lately; without a phone the probe does not decide.
Routes(p) ==
    LET readyPhone == enabled /\ radio = "ready"
        Probed(w) == IF w THEN {Route(TRUE, FALSE, radio, w)} ELSE {}
        Failed(w) == IF w /\ ~enabled THEN {Route(TRUE, FALSE, radio, w)}
                     ELSE ViaPhone(p, w)
    IN  (IF readyPhone THEN {Route(TRUE, TRUE, radio, wifi)} ELSE {})
        \cup UNION {Probed(w) \cup Failed(w) : w \in Associated(~readyPhone)}

Take(r) == phone' = r.phone /\ radio' = r.radio /\ wifi' = r.wifi

-----------------------------------------------------------------------------
(* A worker: connect() at the start of its session; recover() when the       *)
(* route is lost, fallbackToPhone() when Wi-Fi does not reach a host.        *)

\* Mutant: the window of the last session goes on.
LockOnly(w) ==
    /\ selecting = "none" /\ selecting' = w
    /\ UNCHANGED <<enabled, phone, retain, radio, wifi>>

\* The retention now belongs to this session.
LockToConnect(w) ==
    /\ selecting = "none" /\ selecting' = w /\ retain' = "no"
    /\ UNCHANGED <<enabled, phone, radio, wifi>>

LockToRecover(w) ==
    /\ ~Online \/ ~phone
    /\ selecting = "none" /\ selecting' = w
    /\ UNCHANGED <<enabled, phone, retain, radio, wifi>>

\* recover() finds it online again; fallbackToPhone() does not try Wi-Fi.
Recoveries ==
    Routes(phone) \cup ViaPhone(phone, wifi)
    \cup IF Online THEN {Route(TRUE, phone, radio, wifi)} ELSE {}

Unlock == selecting' = "none" /\ UNCHANGED <<enabled, retain>>

-----------------------------------------------------------------------------
(* The main loop.                                                            *)

Configure == phone' = FALSE /\ UNCHANGED <<enabled, retain, selecting, radio, wifi>>

\* configure() and connect() by the main loop, with no worker at work.
MainConnects(r) ==
    /\ selecting = "none" /\ r \in Routes(FALSE)
    /\ Take(r) /\ retain' = "no" /\ UNCHANGED <<enabled, selecting>>

\* finish(): workers ended, sockets closed.  w: Wi-Fi afterwards.
Finish(w) ==
    /\ selecting = "none"
    /\ radio' = "off" /\ phone' = FALSE /\ retain' = "no" /\ wifi' = w
    /\ UNCHANGED <<enabled, selecting>>

FinishRetaining(w) ==
    /\ selecting = "none"
    /\ IF radio = "ready" THEN retain' = "wait" /\ UNCHANGED radio
                          ELSE retain' = "no" /\ radio' = "off"
    /\ phone' = FALSE /\ wifi' = w
    /\ UNCHANGED <<enabled, selecting>>

\* service(), once it has the lock: the window is looked at again.
Expire ==
    /\ selecting = "none"
    /\ IF retain = "due" THEN retain' = "no" /\ radio' = "off"
                         ELSE UNCHANGED <<retain, radio>>
    /\ UNCHANGED <<enabled, phone, selecting, wifi>>

-----------------------------------------------------------------------------
(* The phone comes and goes, Wi-Fi is lost, time passes.                     *)

LinkUp == radio = "on" /\ radio' = "ready"
          /\ UNCHANGED <<enabled, phone, retain, selecting, wifi>>
LinkDown == radio = "ready" /\ radio' = "on"
            /\ UNCHANGED <<enabled, phone, retain, selecting, wifi>>
WifiLost == wifi /\ wifi' = FALSE
            /\ UNCHANGED <<enabled, phone, retain, selecting, radio>>
RetentionEnds == retain = "wait" /\ retain' = "due"
                 /\ UNCHANGED <<enabled, phone, selecting, radio, wifi>>
=============================================================================
