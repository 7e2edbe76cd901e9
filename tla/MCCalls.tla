------------------------------ MODULE MCCalls ------------------------------
(***************************************************************************)
(* The handlers of guestfsd and the functions of the library, one call     *)
(* after another, each on any of its paths.  part says which of the two a  *)
(* behaviour is about.  A property names the functions that do not have    *)
(* it, and is checked for all others.                                      *)
(***************************************************************************)
EXTENDS Integers, Sequences

VARIABLES
  part,
  proc, todo, held, stale, chroot, errno, saved, replies, file, rooted, sized,       \* DaemonCalls
  fn, ltodo, lheld, lstale, nulls, lerrno, lsaved, told, shown, pushed, child        \* LibraryCalls

Handlers == INSTANCE DaemonFilesystems
Functions == INSTANCE LibraryHandle

D == INSTANCE DaemonCalls
L == INSTANCE LibraryCalls WITH
  todo <- ltodo, held <- lheld, stale <- lstale, errno <- lerrno, saved <- lsaved

\* Every path of the tables ends with a return.
ASSUME Assumptions == D!PathsReturn(Handlers!Handlers) /\ L!PathsReturn(Functions!Functions)

daemonVars == <<proc, todo, held, stale, chroot, errno, saved, replies, file, rooted, sized>>
libraryVars == <<fn, ltodo, lheld, lstale, nulls, lerrno, lsaved, told, shown, pushed, child>>
vars == <<part, daemonVars, libraryVars>>

Init == part \in {"daemon", "library"} /\ D!Init /\ L!Init

Daemon == part = "daemon" /\ D!Next(Handlers!Handlers) /\ UNCHANGED <<part, libraryVars>>
Library == part = "library" /\ L!Next(Functions!Functions) /\ UNCHANGED <<part, daemonVars>>
Next == Daemon \/ Library

Spec == Init /\ [][Next]_vars

-----------------------------------------------------------------------------
(* Exceptions *)

\* add_string has replied, and they reply again; find0 replies after it has begun to send.
RepliesAgain == {"device_index", "find0", "list_devices", "list_partitions", "nr_devices"}

\* wipe_device_before_mkfs has replied, and they go on.
Wiping ==
  {"mke2fs", "mke2fs_J", "mke2fs_JL", "mke2fs_JU", "mke2journal", "mke2journal_L", "mke2journal_U",
   "mkfs", "mkfs_b", "mkfs_btrfs", "mkswap", "mkswap_L", "mkswap_U"}

\* A failing strdup or asprintf is not answered.
Unanswered == {"isoinfo", "isoinfo_device", "part_get_gpt_type", "part_get_name", "xfs_info", "zfile"}

\* They refuse their arguments and not the file that comes with them.
Uncancelled == {"internal_rhbz914931", "ntfsclone_in", "tar_in", "upload_offset"}

\* They have no handle to set an error of; their callers do.
Handleless == {"copy_string_list", "get_umask", "join_strings", "random_string", "split_string"}

\* They return -1 or NULL without an error.
Mute ==
  {"drive_source_qemu_param", "guestfs_create_flags", "inspect_get_major_version", "inspect_get_minor_version",
   "make_uri", "parse_suse_release", "parse_unsigned_int", "parse_unsigned_int_ignore_trailing"}

\* They try something, go on without it when it fails, and the error has been shown.
Showing ==
  {"appliance_command_line", "check_architecture", "check_debian_installer_root", "check_filesystem",
   "check_freebsd_root", "check_fstab", "check_hostname_unix", "check_hurd_root", "check_installer_root",
   "check_linux_root", "check_minix_root", "check_netbsd_root", "check_windows_arch",
   "check_windows_software_registry", "check_windows_system_registry", "cleanup_cmd_close",
   "construct_libvirt_xml_boot", "debug_appliance_permissions", "debug_socket_permissions", "discard_possible",
   "disk_format", "disk_has_backing_file", "disk_virtual_size", "get_lpj", "get_png", "get_windows_systemroot",
   "guestfs_close", "guestfs_create_flags", "icon_cirros", "icon_windows_7", "icon_windows_8",
   "icon_windows_xp", "inspect_with_augeas", "is_dir_nocase", "is_file_nocase", "is_systemroot",
   "launch_direct", "launch_libvirt", "list_applications_windows", "list_applications_windows_from_path",
   "list_filesystems", "map_registry_disk_blob", "max_disks_direct", "old_parser_disk_virtual_size",
   "qemu_supports", "qemu_supports_device", "qemu_supports_virtio_scsi", "recursive_remove_dir",
   "resolve_fstab_device", "which_parser"}

\* They close or free twice.
TwiceInDaemon ==
  {"checksum", "checksum_device", "ldmtool_diskgroup_volumes", "ldmtool_scan", "ldmtool_scan_devices",
   "list_partitions", "readdir"}
TwiceInLibrary ==
  {"check_fstab", "check_windows_system_registry", "connect_live", "find", "journal_get", "ls", "read_file",
   "write_or_append"}

\* On one of their error paths they leave memory, a descriptor, a directory or a process behind.
LeakingInDaemon ==
  {"aug_ls", "aug_match", "blkid", "debug", "initrd_cat", "inotify_files", "ldmtool_diskgroup_disks",
   "ldmtool_diskgroup_volumes", "ldmtool_scan", "ldmtool_scan_devices", "ldmtool_volume_partitions",
   "list_md_devices", "readdir", "upload_offset", "vgmeta", "zero_free_space"}
LeakingInLibrary ==
  {"construct_libvirt_xml", "construct_libvirt_xml_hot_add_disk", "get_json_output", "launch_direct",
   "launch_libvirt", "parse_capabilities", "set_abs_path", "set_cachedir", "set_env_tmpdir", "set_tmpdir",
   "shutdown_direct"}

\* They use a pointer that is NULL when a call has failed, or a list that has no end yet.
Trusting ==
  {"build_appliance", "check_windows_software_registry", "check_windows_system_registry", "for_each_disk",
   "launch_direct", "libvirt_auth_callback", "parse_capabilities", "qemu_supports", "qemu_supports_device",
   "readlinklist"}

\* They report the errno of no failure, or of a call that cleaned up after one.
StaleInDaemon ==
  {"command", "command_lines", "download_offset", "initrd_cat", "initrd_list", "list_disk_labels", "mount", "mount_9p",
   "mount_options", "mount_ro", "mount_vfs", "sh", "sh_lines", "tar_in", "tgz_in", "txz_in", "upload_offset", "zero",
   "zero_free_space", "zfile"}
StaleInLibrary == {"check_windows_software_registry", "check_windows_system_registry", "cpio_arch"}

-----------------------------------------------------------------------------
(* Properties *)

\* On every path of its handler a call of the daemon is answered once, when progress messages have
\* stopped and the file of the call has been received, cancelled or ended.
RepliesOnce ==
  /\ proc.name \notin RepliesAgain \cup Wiping \cup Unanswered => D!OneReply
  /\ proc.name \notin Uncancelled \cup {"find0"} => D!FileDone
  /\ D!PulseOver

\* A handler or a function ends what it began, once: it gives up whatever it took, closes and frees
\* nothing twice, leaves the chroot, pops its error handlers, and its forked child never returns into
\* the caller's program.
EndsWhatItBegins ==
  /\ D!TypeOK /\ L!TypeOK
  /\ (proc.name \notin LeakingInDaemon => D!NothingHeld) /\ (fn \notin LeakingInLibrary => L!NothingHeld)
  /\ (proc.name \notin TwiceInDaemon => D!InTurn) /\ (fn \notin TwiceInLibrary => L!InTurn)
  /\ D!ChrootRight /\ L!HandlersPopped /\ L!ChildEnds

\* A function that fails has set the error of the handle, one that succeeds has shown none, and
\* reply_with_perror and perrorf tell the errno of the call that failed.
ErrorsAreTold ==
  /\ fn \notin Handleless \cup Mute => L!ErrorSet
  /\ fn \notin Showing => L!SuccessIsSilent
  /\ (proc.name \notin StaleInDaemon => D!ErrnoOfFailure) /\ (fn \notin StaleInLibrary => L!ErrnoOfFailure)

\* Nothing is used before it is tested: the NULL that a failing call returned is not used, and no path
\* of the guest before it is known that a root filesystem is mounted.  tar_out and cpio_out take a
\* plain string, so that neither they nor the stub test it.
NothingUntested ==
  /\ fn \notin Trusting => L!NoNullUse
  /\ proc.name \notin {"tar_out", "cpio_out"} => D!GuestNeedsRoot

=============================================================================
