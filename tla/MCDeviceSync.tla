---------------------------- MODULE MCDeviceSync ----------------------------
(***************************************************************************)
(* Instances of DeviceSync for TLC, with a bounded number of events: two   *)
(* contents, or three where the file, the slot and the version that was    *)
(* seen must all differ.                                                   *)
(***************************************************************************)
EXTENDS DeviceSync, TLC

Symmetry == Permutations(Contents)

\* The state but for the two variables that no action looks at and that the
\* property of run device_resolve does not speak of either.
WithoutHistory ==
    <<srv, held, file, rel, cache, disk, queued, outbox, conflict, phase, task,
      late, seen, events>>
=============================================================================
