----------------------------- MODULE SensorDemos ------------------------------
(***************************************************************************)
(* Demos of the cc26xx: the chains of sensor readings, and the node that   *)
(* sleeps most of the time.                                                *)
(***************************************************************************)
EXTENDS Integers

(***************************************************************************)
(* How the cc26xx demos read a sensor of the SensorTag, again and again: a *)
(* timer activates it, the driver's event brings the readings, and the     *)
(* timer is set for the next time.  In the web demo ("web") a reading can  *)
(* be switched off over the net and the button starts all chains anew;     *)
(* cc26xx-demo.c ("demo") has neither.  The drivers are external.          *)
(***************************************************************************)

CONSTANTS MaxErrors, MaxPresses      \* readings that fail; the button is pressed, a reading switched

ASSUME SensorAssumption == MaxErrors \in Nat /\ MaxPresses \in Nat

VARIABLES
  program, sensor,
  ctimer,             \* "off", or what it will call: "init" or "get"
  active, event,      \* the driver measures; its event is in the queue
  publish,            \* of the sensor's two readings (the light sensor and the ADC have one)
  converted,          \* what the page shows: "value", or "none" for no value
  errors, presses

sensorVars == <<program, sensor, ctimer, active, event, publish, converted, errors, presses>>

Readings == IF sensor \in {"opt", "adc"} THEN {1} ELSE {1, 2}

\* A reading that is asked for comes, or fails; those not published keep what they show.
TakesReadings(published) ==
  \E failed \in SUBSET published :
    /\ errors + (IF failed = {} THEN 0 ELSE 1) <= MaxErrors
    /\ errors' = errors + (IF failed = {} THEN 0 ELSE 1)
    /\ converted' = [r \in {1, 2} |-> IF r \in published \ failed THEN "value" ELSE converted[r]]

\* Mutant: the sensor's timer waits for both readings.
Both == \A r \in Readings : publish[r]

AnyPublished == \E r \in Readings : publish[r]

Published == {r \in Readings : publish[r]}

(***************************************************************************)
(* cc26xx-web-demo.c                                                       *)
(***************************************************************************)

\* t is what becomes of the timer if it is not set.
Starts(t) ==
  IF AnyPublished THEN active' = TRUE /\ ctimer' = t
  ELSE ctimer' = "init" /\ UNCHANGED active

init_bmp_reading(t) == sensor = "bmp" /\ Starts(t)
init_tmp_reading(t) == sensor = "tmp" /\ Starts(t)
init_hdc_reading(t) == sensor = "hdc" /\ Starts(t)
init_light_reading(t) == sensor = "opt" /\ Starts(t)
init_mpu_reading(t) == sensor = "mpu" /\ Starts(t)

init_reading(t) ==
  \/ init_bmp_reading(t) \/ init_tmp_reading(t) \/ init_hdc_reading(t)
  \/ init_light_reading(t) \/ init_mpu_reading(t)

Deactivated == active' = FALSE /\ ctimer' = "init"

get_batmon_reading == sensor = "batmon" /\ TakesReadings(Published) /\ ctimer' = "get" /\ UNCHANGED active
get_bmp_reading == sensor = "bmp" /\ TakesReadings(Published) /\ Deactivated
\* After an error it goes on with the two values all the same.
get_tmp_reading == sensor = "tmp" /\ TakesReadings(Published) /\ Deactivated
get_hdc_reading == sensor = "hdc" /\ TakesReadings(Published) /\ ctimer' = "init" /\ UNCHANGED active
\* The light sensor does not ask whether its reading is published, and turns itself off.
get_light_reading == sensor = "opt" /\ TakesReadings(Readings) /\ ctimer' = "init" /\ UNCHANGED active
get_mpu_reading == sensor = "mpu" /\ TakesReadings(Published) /\ Deactivated

get_reading ==
  get_bmp_reading \/ get_tmp_reading \/ get_hdc_reading \/ get_light_reading \/ get_mpu_reading

\* A second start may find the sensor active, or the timer set.
init_sensor_readings ==
  CASE sensor = "batmon" -> get_batmon_reading
    [] sensor = "adc"    -> UNCHANGED <<active, ctimer, converted, errors>>
    [] OTHER             -> init_reading(ctimer) /\ UNCHANGED <<converted, errors>>

web_timer ==
  /\ \/ ctimer = "get" /\ get_batmon_reading
     \/ ctimer = "init" /\ init_reading("off") /\ UNCHANGED <<converted, errors>>
  /\ UNCHANGED <<program, sensor, event, publish, presses>>

web_sensors_event ==
  /\ event /\ event' = FALSE /\ get_reading
  /\ UNCHANGED <<program, sensor, publish, presses>>

web_button ==
  /\ presses < MaxPresses /\ presses' = presses + 1
  /\ init_sensor_readings
  /\ UNCHANGED <<program, sensor, event, publish>>

\* sensor_readings_handler(): a reading that is switched off shows no value any more.
sensor_readings_handler ==
  /\ presses < MaxPresses /\ presses' = presses + 1
  /\ \E r \in Readings, on \in BOOLEAN :
       /\ publish' = [publish EXCEPT ![r] = on]
       /\ converted' = [converted EXCEPT ![r] = IF on THEN @ ELSE "none"]
  /\ UNCHANGED <<program, sensor, ctimer, active, event, errors>>

get_adc_reading == converted' = [r \in {1, 2} |-> IF r \in Published THEN "value" ELSE converted[r]]

\* A process of its own, which samples every five seconds.
adc_process ==
  /\ sensor = "adc" /\ get_adc_reading
  /\ UNCHANGED <<program, sensor, ctimer, active, event, publish, errors, presses>>

web_sensors == web_timer \/ web_sensors_event \/ web_button \/ sensor_readings_handler \/ adc_process

(***************************************************************************)
(* cc26xx-demo.c: every reading is printed, and an error of the infrared   *)
(* thermometer ends its chain.                                             *)
(***************************************************************************)

demo_init_reading == active' = TRUE /\ ctimer' = "off"
demo_get_bmp_reading == sensor = "bmp" /\ TakesReadings(Readings) /\ Deactivated
\* The OPT turns itself off.
demo_get_light_reading == sensor = "opt" /\ TakesReadings(Readings) /\ ctimer' = "init" /\ UNCHANGED active
demo_get_mpu_reading == sensor = "mpu" /\ TakesReadings(Readings) /\ Deactivated
demo_get_hdc_reading == sensor = "hdc" /\ TakesReadings(Readings) /\ ctimer' = "init" /\ UNCHANGED active
demo_get_tmp_reading ==
  /\ sensor = "tmp"
  /\ \/ Deactivated /\ converted' = [r \in {1, 2} |-> "value"] /\ UNCHANGED errors
     \/ errors < MaxErrors /\ errors' = errors + 1 /\ UNCHANGED <<active, ctimer, converted>>

demo_get_reading ==
  \/ demo_get_bmp_reading \/ demo_get_light_reading \/ demo_get_mpu_reading
  \/ demo_get_hdc_reading \/ demo_get_tmp_reading

get_sync_sensor_readings == sensor = "batmon" /\ TakesReadings(Readings) /\ UNCHANGED <<event, ctimer, active>>

demo_sensors ==
  /\ \/ ctimer = "init" /\ demo_init_reading /\ UNCHANGED <<event, converted, errors>>
     \/ event /\ event' = FALSE /\ demo_get_reading
     \/ get_sync_sensor_readings
  /\ UNCHANGED <<program, sensor, publish, presses>>

(***************************************************************************)
(* The driver, and the programs                                            *)
(***************************************************************************)

\* The measurement is ready.
sensors_changed ==
  /\ active /\ ~ event /\ event' = TRUE
  /\ active' = FALSE
  /\ UNCHANGED <<program, sensor, ctimer, publish, converted, errors, presses>>

\* Of the web demo the battery monitor has its timer too.
demo_init_sensor_readings == active = (sensor # "batmon") /\ ctimer = "off"
web_init_sensor_readings ==
  active = (sensor \notin {"batmon", "adc"}) /\ ctimer = IF sensor = "batmon" THEN "get" ELSE "off"

\* The first pass: init_sensor_readings() has been called.
SensorInit ==
  /\ sensor \in {"batmon", "bmp", "tmp", "hdc", "opt", "mpu", "adc"}
  /\ \/ program = "demo" /\ sensor # "adc" /\ demo_init_sensor_readings
     \/ program = "web" /\ web_init_sensor_readings
  /\ event = FALSE
  /\ publish = [r \in {1, 2} |-> TRUE] /\ converted = [r \in {1, 2} |-> "none"]
  /\ errors = 0 /\ presses = 0

SensorNext ==
  \/ program = "web" /\ web_sensors
  \/ program = "demo" /\ demo_sensors
  \/ sensors_changed

\* What goes on by itself: the driver, and the process with its timers and events.
web_goes_on  == program = "web" /\ (web_timer \/ web_sensors_event \/ adc_process)
demo_goes_on == program = "demo" /\ demo_sensors

(***************************************************************************)
(* Properties                                                              *)
(***************************************************************************)

\* What is switched off is not shown, whatever event or timer was under way; the light
\* sensor's value may come back once.
OffShowsNothing ==
  sensor # "opt" => \A r \in Readings : ~ publish[r] => converted[r] = "none"

\* Through errors, switches and second starts every chain goes on: a reading that stays
\* switched on shows a value in the end.  (Not the thermometer of cc26xx-demo.c.)
PublishedIsShown ==
  \A r \in {1, 2} : (<>[](r \in Published /\ ~ (program = "demo" /\ sensor = "tmp"))) => <>[](converted[r] = "value")

(***************************************************************************)
(* cc26xx/very-sleepy-demo: a node that turns its radio off most of the    *)
(* time.  Its process looks at three timers once a second, when the button *)
(* is released and when a new configuration came, and decides whether the  *)
(* MAC layer is on.  The state of its parent and the probes of the routing *)
(* protocol, for which the MAC must stay on, are external.                 *)
(***************************************************************************)

CONSTANTS
  Durations, Intervals,       \* NORMAL_OP_DURATION_MIN.., PERIODIC_INTERVAL_MIN.. and one below each
  DURATION_MIN, INTERVAL_MIN,
  KEEP_MAC_ON_MIN_PERIOD,
  MaxPosts                    \* bound on the new configurations and buttons

ASSUME SleepyAssumption ==
  /\ Durations \subseteq Nat /\ Intervals \subseteq Nat
  /\ DURATION_MIN \in Durations /\ INTERVAL_MIN \in Intervals
  /\ KEEP_MAC_ON_MIN_PERIOD \in Nat /\ MaxPosts \in Nat

VARIABLES
  config,
  state,
  st_duration, st_interval, st_min_mac_on_duration,   \* the seconds left; 0 is expired
  mac,                        \* it is on
  new_config,                 \* event_new_config is in the queue
  posts,
  on_for,                     \* history: the seconds for which the MAC is on, or was the last time
  since                       \* history: the seconds since the last notification or configuration

sleepyVars == <<config, state, st_duration, st_interval, st_min_mac_on_duration, mac, new_config,
                posts, on_for, since>>

Shorter(m, n) == IF m < n THEN m ELSE n
Longer(m, n)  == IF m < n THEN n ELSE m
OneLess(n)    == Longer(n - 1, 0)

Enough == Shorter(DURATION_MIN, KEEP_MAC_ON_MIN_PERIOD)

SleepyInit ==
  /\ config = [mode |-> "OFF", interval |-> INTERVAL_MIN, duration |-> DURATION_MIN]
  /\ state = "NOTIFY_OBSERVERS"
  /\ st_duration = config.duration /\ st_interval = config.interval
  /\ st_min_mac_on_duration = 0
  /\ mac = TRUE /\ new_config = FALSE
  /\ posts = 0 /\ on_for = 0 /\ since = 0

\* conf_post_handler(): what is missing stays; with one bad value nothing changes.
conf_post_handler ==
  /\ mac /\ ~ new_config /\ posts < MaxPosts /\ posts' = posts + 1
  /\ \E mode \in {"none", "OFF", "ON", "bad"}, i \in Intervals \cup {0}, d \in Durations \cup {0} :
       LET bad == mode = "bad" \/ i \in 1 .. INTERVAL_MIN - 1 \/ d \in 1 .. DURATION_MIN - 1
           none == mode = "none" /\ i = 0 /\ d = 0
       IN IF bad \/ none THEN UNCHANGED <<config, new_config>>
          ELSE /\ config' = [mode     |-> IF mode = "none" THEN config.mode ELSE mode,
                             interval |-> IF i = 0 THEN config.interval ELSE i,
                             duration |-> IF d = 0 THEN config.duration ELSE d]
               /\ new_config' = TRUE
  /\ UNCHANGED <<state, st_duration, st_interval, st_min_mac_on_duration, mac, on_for, since>>

\* Mutant: the lock is never renewed.
LockedOnce(lock, needed) == lock

\* keep_mac_on(): for as long as it has locked the MAC on, and when the network needs it,
\* which locks it on again.
Locked(lock, needed) == IF lock = 0 /\ needed THEN KEEP_MAC_ON_MIN_PERIOD ELSE lock

keep_mac_on(lock, needed) == lock > 0 \/ needed

switch_to_normal == [state |-> "NOTIFY_OBSERVERS", duration |-> config.duration, interval |-> config.interval]

switch_to_very_sleepy(timers) ==
  [state |-> "VERY_SLEEPY", duration |-> config.duration, interval |-> timers.interval]

\* The mode to go on in, and what is left of its two timers.
switch_mode(s, timers) ==
  CASE s = "VERY_SLEEPY" /\ timers.interval = 0 -> switch_to_normal
    [] s # "VERY_SLEEPY" /\ timers.duration = 0 /\ config.mode = "ON" -> switch_to_very_sleepy(timers)
    [] OTHER ->
         [state    |-> IF s = "VERY_SLEEPY" THEN s ELSE "NORMAL",
          duration |-> IF s # "VERY_SLEEPY" /\ timers.duration = 0 THEN config.duration ELSE timers.duration,
          interval |-> timers.interval]

\* A pass of the process, in the state and with the timers that the event and the time that
\* passed leave.  Observers are notified in the state of that name, with the MAC on.
pass(s, timers, lock, seconds) ==
  \E needed \in BOOLEAN :
    LET next == switch_mode(s, timers)
    IN /\ st_min_mac_on_duration' = Locked(lock, needed)
       /\ state' = next.state
       /\ st_duration' = next.duration
       /\ st_interval' = next.interval
       /\ mac' = (keep_mac_on(lock, needed) \/ next.state # "VERY_SLEEPY")
       /\ on_for' = IF mac THEN Shorter(on_for + seconds, Enough) ELSE IF mac' THEN 0 ELSE on_for
       /\ since' = IF s = "NOTIFY_OBSERVERS" \/ seconds = 0 \/ config.mode = "OFF" THEN 0
                   ELSE since + seconds
       /\ UNCHANGED config

Full == [duration |-> config.duration, interval |-> config.interval]

button_event ==
  /\ posts < MaxPosts /\ posts' = posts + 1
  /\ pass("NOTIFY_OBSERVERS", Full, st_min_mac_on_duration, 0)
  /\ UNCHANGED new_config

new_config_event ==
  /\ new_config /\ new_config' = FALSE
  /\ pass(state, Full, st_min_mac_on_duration, 0)
  /\ UNCHANGED posts

\* A second passes, and et_periodic's event comes.
timer_event ==
  /\ ~ new_config
  /\ pass(state, [duration |-> OneLess(st_duration), interval |-> OneLess(st_interval)],
          OneLess(st_min_mac_on_duration), 1)
  /\ UNCHANGED <<new_config, posts>>

SleepyNext == conf_post_handler \/ button_event \/ new_config_event \/ timer_event

(***************************************************************************)
(* Properties                                                              *)
(***************************************************************************)

\* "In all cases, the radio will be locked on for KEEP_MAC_ON_MIN_PERIOD secs": whatever
\* turned it on, a wake-up, the network or the button, it stays on that long, or for the
\* duration of the normal mode, also when a new configuration comes meanwhile.
OnLongEnough == ~ mac => on_for = Enough

\* "Transition back to normal in 'interval' secs, _including_ 'duration'": in the very
\* sleepy mode the observers are notified once in an interval, give or take the pass it
\* takes; or in a duration, if that is longer.  (A new configuration, which may be shorter,
\* starts the count anew when its event is handled.)
NotifiesInTime == ~ new_config => since <= Longer(config.interval, config.duration) + 1
===============================================================================
