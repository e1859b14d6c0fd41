---------------------------- MODULE MCSaltVolume ----------------------------
(***************************************************************************)
(* The kinds of Volumes that the runs of SaltVolume mix.                   *)
(***************************************************************************)
EXTENDS SaltVolume

\* A filesystem in a file, or on a device that users name.
FilesystemKinds == {"sparseLoopDevice", "rawBlockDevice"} \X {"Filesystem"}

\* Raw block storage of any type, and a filesystem on an LVM volume.
BlockKinds == Types \X {"Block"} \cup {<<"lvmLogicalVolume", "Filesystem">>}

\* Devices that users name, in both modes.
RawKinds == {"rawBlockDevice"} \X Modes
=============================================================================
