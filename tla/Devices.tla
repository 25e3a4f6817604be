-------------------------------- MODULE Devices --------------------------------
(***************************************************************************)
(* The audio side of a remote-au process, which runs as `server' or as     *)
(* `send': the output supervised by Playback, or the input by Capture.     *)
(***************************************************************************)
EXTENDS Playback, Capture

DevicesInit ==
  /\ EndInit({"playback", "mic", "loopback"})
  /\ PlaybackInit
  /\ CaptureInit

DevicesNext ==
  \/ kind = "playback" /\ PlaybackNext /\ UNCHANGED seeking
  \/ kind # "playback" /\ CaptureNext /\ UNCHANGED <<names, watch>>

devicesVars == <<playbackVars, seeking>>
DevicesSpec == DevicesInit /\ [][DevicesNext]_devicesVars

-----------------------------------------------------------------------------
(* Once the output or the input has had its time to return, it is at rest: *)
(* until something else happens no worker, watchdog or check of an         *)
(* endpoint opens or closes a stream again.  What has settled does not     *)
(* flap, whatever names, flags and errors the last faults left behind.     *)
AtRest == steady > IF kind = "playback" THEN Grace ELSE Recovery
StreamKept == [][AtRest /\ steady' # 0 => stream' = stream]_devicesVars

=============================================================================
