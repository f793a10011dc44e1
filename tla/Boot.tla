--------------------------------- MODULE Boot ---------------------------------
(***************************************************************************)
(* How main brings the board from reset to the running controller          *)
(* (main.c, interrupt.c, tca6416a.c): the I/O expander is set up over the  *)
(* bus and the devices behind it are reset, the button interrupts are      *)
(* enabled, the queue is created, and the scheduler starts. From there on  *)
(* every step is one of module Controller.                                 *)
(*                                                                         *)
(* Before the scheduler runs, each call into FreeRTOS leaves interrupts    *)
(* disabled behind it, for the nesting count of this port starts at        *)
(* 0xaaaaaaaa; main enables them once in between.                          *)
(***************************************************************************)
EXTENDS Controller, FiniteSets

CONSTANT MaxFaults  \* bound of the model: transfers to the expander that fail

ASSUME MaxFaultsAssumption == MaxFaults \in Nat

VARIABLES
    bootPc,       \* where main is
    interruptsOn, \* PRIMASK
    externalOn,   \* the interrupt of the expander is enabled
    queueCreated, \* controllerQueue is not NULL
    latched,      \* presses the EIC holds until interrupts are on
    out,          \* pins set in the output registers of the expander
    outputs,      \* pins configured as outputs
    actual,       \* actual0 and actual1 of TCA6416a_reset_devices
    failed,       \* the transfers that failed
    stopped       \* configASSERT has stopped the board

bootVars == <<bootPc, interruptsOn, externalOn, queueCreated, latched, out, outputs, actual,
              failed, stopped>>

Port0 == {"BLE_RESET"}
Port1 == {"SFX_RESET", "SFX_WAKEUP", "GPS_FORCE_ON", "GPS_RESET"}
Pins  == Port0 \cup Port1

BootInit ==
    /\ Init
    /\ bootPc = "conf0"
    /\ interruptsOn = FALSE
    /\ externalOn = FALSE
    /\ queueCreated = FALSE
    /\ latched = {}
    /\ out = Pins
    /\ outputs = {}
    /\ actual = {}
    /\ failed = {}
    /\ stopped = FALSE

-----------------------------------------------------------------------------
(* The expander. A write that fails may have reached the chip all the same *)
(* (smeI2C.c:278).                                                         *)

At(step) == ~stopped /\ bootPc = step

\* Nothing but the boot itself moves.
Quiet == UNCHANGED <<vars, interruptsOn, queueCreated, latched, stopped>>

\* A write of a configuration register: the pins of the port become outputs. The
\* boot goes on at next, or at otherwise when the write fails.
Configure(step, port, next, otherwise) ==
    /\ At(step)
    /\ \/ outputs' = outputs \cup port /\ bootPc' = next /\ UNCHANGED failed
       \/ /\ Cardinality(failed) < MaxFaults
          /\ outputs' \in {outputs, outputs \cup port}
          /\ bootPc' = otherwise
          /\ failed' = failed \cup {step}
    /\ UNCHANGED <<out, actual, externalOn>>
    /\ Quiet

\* A write of an output register.
Write(step, pins, next, otherwise) ==
    /\ At(step)
    /\ \/ out' = pins /\ bootPc' = next /\ UNCHANGED failed
       \/ /\ Cardinality(failed) < MaxFaults
          /\ out' \in {out, pins}
          /\ bootPc' = otherwise
          /\ failed' = failed \cup {step}
    /\ UNCHANGED <<outputs, actual, externalOn>>
    /\ Quiet

\* A read of a port into a variable of the stack, which holds anything before.
Read(step, port, next, otherwise) ==
    /\ At(step)
    /\ \/ /\ actual' = (actual \ port) \cup (out \cap port)
          /\ bootPc' = next
          /\ UNCHANGED failed
       \/ /\ Cardinality(failed) < MaxFaults
          /\ \E garbage \in SUBSET port : actual' = (actual \ port) \cup garbage
          /\ bootPc' = otherwise
          /\ failed' = failed \cup {step}
    /\ UNCHANGED <<out, outputs, externalOn>>
    /\ Quiet

\* TCA6416a_init: the pins become outputs, then their values are written. When
\* the second port is not configured the devices are not reset.
ExpanderInit ==
    \/ Configure("conf0", Port0, "init0", "conf1")
    \/ Write("init0", out \cup Port0, "conf1", "conf1")
    \/ Configure("conf1", Port1, "init1", "isr")
    \/ Write("init1", out \cup Port1, "read0", "read0")

LowPins == {"BLE_RESET", "GPS_RESET", "SFX_WAKEUP"}

WriteBack_Low ==
    \/ Write("high0", (out \ Port0) \cup ((actual \cap Port0) \ LowPins), "high1", "high1")
    \/ Write("high1", (out \ Port1) \cup ((actual \cap Port1) \ LowPins), "external", "external")

\* The ports as they were read, also when the read failed.
WriteBack ==
    \/ Write("high0", (out \ Port0) \cup (actual \cap Port0), "high1", "high1")
    \/ Write("high1", (out \ Port1) \cup (actual \cap Port1), "external", "external")

\* TCA6416a_reset_devices: resets low and back again.
ResetDevices ==
    \/ Read("read0", Port0, "low0", "read1")
    \/ Write("low0", (out \ Port0) \cup ((actual \cap Port0) \ LowPins), "read1", "read1")
    \/ Read("read1", Port1, "low1", "high0")
    \/ Write("low1", (out \ Port1) \cup ((actual \cap Port1) \ LowPins), "high0", "high0")
    \/ WriteBack

\* extint_chan_enable_callback at its end.
EnableExternal ==
    /\ At("external")
    /\ externalOn' = TRUE
    /\ bootPc' = "read force"
    /\ UNCHANGED <<out, outputs, actual, failed>>
    /\ Quiet

\* TCA6416a_gps_force_on: read, modify, write.
GpsForceOn ==
    \/ Read("read force", Port1, "write force", "isr")
    \/ Write("write force", (out \ Port1) \cup ((actual \cap Port1) \ {"GPS_FORCE_ON"}), "isr", "isr")

-----------------------------------------------------------------------------
(* Interrupts and the start of the tasks.                                  *)

IsrInit_KeepExternal ==
    /\ At("isr")
    /\ bootPc' = "window"
    /\ interruptsOn' = TRUE
    /\ UNCHANGED <<vars, externalOn, queueCreated, latched,
                   out, outputs, actual, failed, stopped>>

\* sme_init_isr_global: buttons on, expander off, and interrupts enabled.
IsrInit ==
    /\ At("isr")
    /\ bootPc' = "window"
    /\ externalOn' = FALSE
    /\ interruptsOn' = TRUE
    /\ UNCHANGED <<vars, queueCreated, latched,
                   out, outputs, actual, failed, stopped>>

ManagersInit_Enabled ==
    /\ At("window")
    /\ bootPc' = "managers"
    /\ UNCHANGED <<vars, interruptsOn, externalOn, queueCreated, latched,
                   out, outputs, actual, failed, stopped>>

\* sme_sigfox_rx_mgr_init calls FreeRTOS: interrupts are off again.
ManagersInit ==
    /\ At("window")
    /\ bootPc' = "managers"
    /\ interruptsOn' = FALSE
    /\ UNCHANGED <<vars, externalOn, queueCreated, latched,
                   out, outputs, actual, failed, stopped>>

\* sme_ctrl_init, and the tag is written (module NdefTag).
CtrlInit ==
    /\ At("managers")
    /\ bootPc' = "start"
    /\ queueCreated' = TRUE
    /\ UNCHANGED <<vars, interruptsOn, externalOn, latched,
                   out, outputs, actual, failed, stopped>>

\* vTaskStartScheduler.
StartScheduler ==
    /\ At("start")
    /\ bootPc' = "run"
    /\ interruptsOn' = TRUE
    /\ UNCHANGED <<vars, externalOn, queueCreated, latched,
                   out, outputs, actual, failed, stopped>>

BootStep ==
    \/ ExpanderInit \/ ResetDevices \/ EnableExternal \/ GpsForceOn
    \/ IsrInit \/ ManagersInit \/ CtrlInit \/ StartScheduler

\* A button is pressed when main has configured its line but does not run yet.
PressAtBoot(b) ==
    /\ ~stopped
    /\ bootPc \in {"window", "managers", "start"}
    /\ latched' = latched \cup {b}
    /\ UNCHANGED <<vars, bootPc, interruptsOn, externalOn, queueCreated,
                   out, outputs, actual, failed, stopped>>

\* The handler of a latched press. It posts to NULL while there is no queue:
\* configASSERT of xQueueGenericSendFromISR stops the board.
TakeLatched(b) ==
    /\ ~stopped /\ interruptsOn
    /\ b \in latched
    /\ latched' = latched \ {b}
    /\ IF queueCreated
       THEN \/ b = "button1Int" /\ Button1Press /\ UNCHANGED stopped
            \/ b = "button2Int" /\ Button2Press /\ UNCHANGED stopped
            \/ ~PressAccepted(b) /\ UNCHANGED <<vars, stopped>>
       ELSE stopped' = TRUE /\ UNCHANGED vars
    /\ UNCHANGED <<bootPc, interruptsOn, externalOn, queueCreated,
                   out, outputs, actual, failed>>

Run == bootPc = "run" /\ Next /\ UNCHANGED bootVars

BootNext == BootStep \/ Run \/ \E b \in Buttons : PressAtBoot(b) \/ TakeLatched(b)

BootSpec == BootInit /\ [][BootNext]_<<vars, bootVars>>

(* main is sequential code, an enabled interrupt is taken, and the running  *)
(* controller is as fair as in Controller.                                  *)
BootFairness ==
    /\ WF_<<vars, bootVars>>(BootStep)
    /\ \A b \in Buttons : WF_<<vars, bootVars>>(TakeLatched(b))
    /\ WF_<<vars, bootVars>>(bootPc = "run" /\ ControlStep /\ UNCHANGED bootVars)
    /\ WF_<<vars, bootVars>>(bootPc = "run" /\ Idle /\ UNCHANGED bootVars)
    /\ SF_<<vars, bootVars>>(bootPc = "run" /\ Answer /\ UNCHANGED bootVars)

FairBootSpec == BootSpec /\ BootFairness

-----------------------------------------------------------------------------
(* Properties.                                                             *)

\* The scheduler starts the controller in the state module Controller begins
\* with: nothing queued, marked or locked, the queue there, and the interrupt of
\* the expander off, although its driver has enabled it (tca6416a.c:111).
HandOver ==
    [][bootPc # "run" /\ bootPc' = "run"
        => Init' /\ queueCreated' /\ externalOn' = IoExtEnabled]_<<vars, bootVars>>

\* The pins the expander drives high. A pin that is still an input is driven by
\* nobody, whatever its output register holds.
Driven == out \cap outputs

\* The devices of a port leave the boot with their resets driven high, whichever
\* transfers fail on the way, unless it is one of three: the configuration of the
\* port, the read of it before the resets go low (tca6416a.c:86), or the write
\* that puts back what was read.
DevicesReleased ==
    bootPc = "run" =>
        /\ failed \cap {"conf0", "read0", "high0"} = {} => "BLE_RESET" \in Driven
        /\ failed \cap {"conf1", "read1", "high1"} = {}
            => {"GPS_RESET", "SFX_RESET", "SFX_WAKEUP"} \subseteq Driven

\* A press stops the board between sme_init_isr_global and the next call into
\* FreeRTOS, and at no other time (main.c:81).
StopsInWindow == stopped => bootPc = "window"
===============================================================================
