------------------------------ MODULE QspiFlash ------------------------------
(***************************************************************************)
(* The asynchronous part of the QSPI flash driver (qspi_w25q64.c) as the    *)
(* blackbox uses it.  Its state is the operation in flight, "none" when     *)
(* s_async_state is IDLE: an operation starts, is polled from the idle      *)
(* tick, and ends once with DONE or ERROR.  The pages of a write are one    *)
(* operation here: what the flash holds of it when it fails or when the     *)
(* firmware is reset is any part, which the modules that use it say.        *)
(* An outcome is marked as a fault when the hardware failed.                *)
(***************************************************************************)

Operations == {"none", "write", "erase"}

AsyncStates == {"idle", "busy", "done", "error"}

\* qspi_w25q64_write_async_tick.  The error interrupt may come at any time
\* while an operation is in flight; DONE and ERROR are reported once.
Polled(qspi) ==
    IF qspi = "none"
    THEN {[qspi |-> "none", state |-> "idle", fault |-> FALSE]}
    ELSE {[qspi |-> qspi, state |-> "busy", fault |-> FALSE],
          [qspi |-> "none", state |-> "done", fault |-> FALSE],
          [qspi |-> "none", state |-> "error", fault |-> TRUE]}

\* qspi_w25q64_write_async_start.  It is refused while another operation is
\* in flight.  A first page that cannot be started is turned from ERROR into
\* IDLE by the tick called here, so the result is true and nothing is in
\* flight.
WriteStarted(qspi) ==
    IF qspi # "none"
    THEN {[qspi |-> qspi, ok |-> FALSE, fault |-> FALSE]}
    ELSE {[qspi |-> "write", ok |-> TRUE, fault |-> FALSE],
          [qspi |-> "none", ok |-> TRUE, fault |-> TRUE]}

\* qspi_w25q64_erase_sector_async_start
EraseStarted(qspi) ==
    IF qspi # "none"
    THEN {[qspi |-> qspi, ok |-> FALSE, fault |-> FALSE]}
    ELSE {[qspi |-> "erase", ok |-> TRUE, fault |-> FALSE],
          [qspi |-> "none", ok |-> FALSE, fault |-> TRUE]}
=============================================================================
