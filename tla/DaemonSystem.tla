----------------------------- MODULE DaemonSystem -----------------------------
(***************************************************************************)
(* The handlers of guestfsd that mount and unmount, run the guest's        *)
(* programs and keep a handle between calls (augeas, hivex, the journal,   *)
(* inotify), and the small ones.  Each definition is the set of paths of   *)
(* the C function it is named after, and of its neighbours with the same   *)
(* paths.                                                                  *)
(***************************************************************************)
EXTENDS DaemonBlock

(* mount.c *)

is_device_mounted ==
  Try(Sys, Fail) ** Get("mounts") ** Loop(Opt(Host ** Opt(Close("mounts") ** Ok))) ** Close("mounts") ** Ok
mount_vfs_nochroot == Opt(Try(Alloc, Fail)) ** FinishCommand
\* The mount point may be "/", which needs no root.  When it is not a directory, errno is stale.
do_mount_vfs == Refuse ** Try(Alloc, Fail) ** Try(Sys, Fail) ** Opt(Fail) ** mount_vfs_nochroot
\* do_mount_ro and do_mount_options too.
do_mount == do_mount_vfs
do_umount(is_dev) == Try(name_of(is_dev), Fail) ** FinishCommand
\* do_mounts and do_mountpoints too.
mounts_or_mountpoints ==
  LET add == Try(AddString("ret"), Close("mounts") ** Bad)
  IN  Get("mounts") ** Loop(add ** Opt(add)) ** Close("mounts") ** Add("ret")
      ** Opt(Try(Of(lv_canonical), Free("ret") ** Bad)) ** Give("ret") ** Ok
\* The longest path first; the handles that would keep a filesystem busy are closed before.
do_umount_all ==
  Host ** Get("mounts") ** Loop(Try(AddString("dirs"), Close("mounts") ** Bad)) ** Close("mounts")
  ** Loop(Try(Command, Error ** Free("dirs") ** Bad)) ** Free("dirs") ** Ok
do_mount_loop == Try(sysroot_path, Fail) ** Try(sysroot_path, Fail) ** FinishCommand
do_remount == Refuse ** Try(sysroot_path, Fail) ** FinishCommand
\* These two are exempt from NEED_ROOT: with them the first mount point is made and removed.
Exempt == Ev("root", "exempt")
\* do_rmmountpoint too.
do_mkmountpoint == Refuse ** Exempt ** Finish(GuestCall)

-----------------------------------------------------------------------------
(* command.c *)

\* Each of the mounts may fail silently, and is undone only if it did not.
bind_mount == Try(sysroot_path, Fail) ** Opt(Host ** Grow("binds")) ** Host ** Ok
free_bind_state == Free("binds")
\* The guest's resolv.conf is moved out of the way.
set_up_etc_resolv_conf ==
  Try(sysroot_path, Fail) ** If(Sys, Try(Of(random_name), Fail) ** Try(Alloc, Fail) ** Try(Growing("conf", Sys), Fail), Skip)
  ** Ignore(Command) ** Ok
free_resolver_state == Host ** Free("conf")
GuestProgram(r) == Chroot([ok |-> Ev("guest", "") ** Grow(r), bad |-> Ev("guest", "") ** Grow(r)])
do_command_keeps_binds ==
  LET restore == free_bind_state ** free_resolver_state
  IN  NeedRoot ** Refuse ** Try(Of(bind_mount), Bad) ** Opt(Try(Of(set_up_etc_resolv_conf), Bad))
      ** Try(GuestProgram("out"), restore ** Error ** Free("out") ** Bad) ** restore ** Give("out") ** Ok
do_command ==
  LET restore == free_bind_state ** free_resolver_state
  IN  NeedRoot ** Refuse ** Try(Of(bind_mount), Bad)
      ** Opt(Try(Of(set_up_etc_resolv_conf), free_bind_state ** Bad))
      ** Try(GuestProgram("out"), restore ** Error ** Free("out") ** Bad) ** restore ** Give("out") ** Ok
do_command_lines == Try(Of(do_command), Bad) ** split_lines
do_sh == do_command
do_sh_lines == do_command_lines

-----------------------------------------------------------------------------
(* augeas.c, hivex.c, journal.c *)

\* NEED_AUG, NEED_HANDLE; then a call of the library that keeps the handle.
\* do_aug_defvar too.
Library == Refuse ** Host ** Refuse ** Ok
do_aug_init == Host ** Try(sysroot_path, Fail) ** Host ** Refuse ** Ok
do_aug_close == Refuse ** Host ** Ok
\* do_aug_get too.
do_aug_defnode == Refuse ** Host ** Refuse ** Finish(Alloc)
\* do_aug_clear, do_aug_insert, do_aug_rm and do_aug_mv too.
do_aug_set == Library
\* When the array cannot be extended it is not freed.
do_aug_match == Refuse ** Host ** Refuse ** Opt(Grow("matches")) ** Try(Growing("matches", Alloc), Fail) ** Give("matches") ** Ok
\* do_aug_load too.
do_aug_save == Library
do_aug_ls == Refuse ** Opt(Try(Alloc, Fail)) ** do_aug_match
do_aug_setm == Library
do_aug_label == Refuse ** Host ** Refuse ** Finish(Alloc)

\* do_hivex_root and do_hivex_node_name too.
Handle == Refuse ** Finish(Sys)
do_hivex_open == Host ** Try(sysroot_path, Fail) ** Finish(Sys)
do_hivex_close == Refuse ** Host ** Ok
do_hivex_node_children == Refuse ** Try(Sys, Fail) ** Try(Growing("ret", Alloc), Fail) ** Try(Alloc, Perror ** Free("ret") ** Bad) ** Give("ret") ** Ok
\* do_hivex_node_parent too.
do_hivex_node_get_child == Handle
do_hivex_node_values == do_hivex_node_children
\* do_hivex_value_key and do_hivex_value_type too.
do_hivex_node_get_value == Handle
do_hivex_value_value == Refuse ** Try(Sys, Fail) ** SetSize ** Ok
do_hivex_commit_unrooted == Refuse ** Opt(Refuse ** Try(sysroot_path, Fail)) ** Finish(Sys)
do_hivex_commit == Refuse ** ((Refuse ** NeedRoot ** Try(sysroot_path, Fail)) \cup Skip) ** Finish(Sys)
\* do_hivex_node_delete_child and do_hivex_node_set_value too.
do_hivex_node_add_child == Handle

do_journal_open == Host ** Try(sysroot_path, Fail) ** Finish(Sys)
do_journal_close == Refuse ** Host ** Ok
do_journal_next == Handle
do_journal_skip == Refuse ** Opt(Ok) ** Finish(Sys)
do_internal_journal_get ==
  Refuse ** Reply ** Loop(Host ** Try(Send, Bad) ** Try(Send, Bad)) ** Try(Sys, EndFile ** Bad) ** EndFile ** (Ok \cup Bad)
\* do_journal_set_data_threshold and do_journal_get_realtime_usec too.
do_journal_get_data_threshold == Handle

-----------------------------------------------------------------------------
(* inotify.c *)

do_inotify_close == Refuse ** Refuse ** Finish(Sys)
do_inotify_init ==
  NeedRoot ** Refuse ** Opt(Try(Open("fp"), Fail) ** Close("fp")) ** Opt(Try(Of(do_inotify_close), Bad)) ** Finish(Sys)
do_inotify_add_watch == Refuse ** Try(sysroot_path, Fail) ** Finish(Sys)
do_inotify_rm_watch == Handle
do_inotify_read ==
  LET error == Free("ret") ** Bad
      done == Give("ret") ** Ok
  IN  Refuse ** Try(Growing("ret", Alloc), Fail)
      ** Loop(Try(Sys, done \cup (Perror ** error)) ** Opt(Error ** error)
              ** Opt(Try(Growing("ret", Alloc), Perror ** error) ** Try(Alloc, Perror ** error)))
      ** done
\* mkstemp's file and its descriptor stay behind when sort cannot be run, the descriptor when reading fails.
do_inotify_files ==
  LET error == Put("tmp") ** Bad
  IN  Refuse ** Try(Taking("tmp", Open("fd")), Fail) ** Try(Open("fp"), Fail)
      ** Loop(Try(Of(do_inotify_read), Close("fp") ** error)) ** Close("fp")
      ** Try(Alloc, Perror ** Put("tmp") ** Close("fd") ** Bad)
      ** Loop(Try(AddString("ret"), Close("fd") ** error)) ** Close("fd") ** Try(AddString("ret"), error)
      ** Put("tmp") ** Give("ret") ** Ok

-----------------------------------------------------------------------------
(* debug.c, without "segv", which ends the daemon *)

do_drop_caches == Try(Of(sync_disks), Fail) ** Try(Open("fp"), Fail) ** FinishClosing("fp")

debug_help == Try(Growing("r", Alloc), Fail) ** Loop(Try(Growing("r", Alloc), Perror ** Free("r") ** Bad)) ** Give("r") ** Ok
\* The stream's memory is not freed when there is nothing to list.
debug_fds ==
  LET drop == Close("fp") ** Free("out") ** Close("dir") ** Bad
  IN  Try(Open("fp"), Fail) ** Grow("out") ** Try(Open("dir"), FailClosing("fp")) ** Loop(Try(Sys, Perror ** drop))
      ** Close("fp") ** Try(Closing("dir"), Perror ** Free("out") ** Bad) ** Give("out") ** Ok
debug_sh == Refuse ** Try(Alloc, Fail) ** Host ** Output ** Give("out") ** Ok
debug_env == Output ** Give("out") ** Ok
debug_setenv == Refuse ** Finish(Alloc)
debug_error == Refuse ** Try(Alloc, Fail) ** FailMsg
debug_binaries == Output ** Give("out") ** Ok
debug_ldd == Refuse ** Output ** Try(Alloc, Perror ** Free("out") ** Bad) ** Give("out") ** Ok
\* debug_ll too.
debug_ls == Output ** Give("out") ** Ok
debug_print == Finish(Alloc)
debug_progress == Refuse ** Loop(Host) ** Finish(Alloc)
debug_core_pattern == Refuse ** Try(Open("fd"), Fail) ** Try(Sys, FailClosing("fd")) ** Try(Closing("fd"), Fail) ** Try(Sys, Fail) ** Finish(Alloc)
debug_spew == Refuse ** Finish(Alloc)
debug_qtrace ==
  Refuse ** Try(Of(do_drop_caches), Bad) ** Try(Open("fd"), Fail) ** Try(Alloc, FailClosing("fd"))
  ** Loop(Try(Sys, FailClosing("fd"))) ** Close("fd") ** Try(Of(do_drop_caches), Bad) ** Finish(Alloc)
debug_device_speed ==
  Refuse ** Try(Of(do_blockdev_getsz), Bad) ** Refuse ** Try(Open("fd"), Fail)
  ** Loop(Try(Sys, FailClosing("fd")) ** Opt(Error ** Close("fd") ** Bad)) ** Try(Closing("fd"), Fail) ** Finish(Alloc)
do_debug ==
  FailMsg \cup debug_help \cup debug_fds \cup debug_sh \cup debug_env \cup debug_setenv \cup debug_error
  \cup debug_binaries \cup debug_ldd \cup debug_ls \cup debug_ls \cup debug_print \cup debug_progress
  \cup debug_core_pattern \cup debug_spew \cup debug_qtrace \cup debug_device_speed
\* do_internal_upload too.
do_debug_upload ==
  Try(Open("fd"), SaveAndCancel ** Fail)
  ** Receive(SaveAndCancel ** Error ** Close("fd") ** Bad, Error ** Close("fd") ** Bad) ** FinishClosing("fd")
\* A bad argument is refused, but the file is not.
do_internal_rhbz914931 == Refuse ** Receive(SaveAndCancel ** FailMsg, FailMsg) ** Ok

-----------------------------------------------------------------------------
(* syslinux.c, grub.c, internal.c, modprobe.c, utsname.c, dmesg.c, sleep.c, echo-daemon.c, pingdaemon.c *)

do_syslinux == FinishCommand
do_extlinux == Try(sysroot_path, Fail) ** FinishCommand
do_grub_install == Try(Alloc, Fail) ** FinishCommand
do_internal_autosync == LET r == Of(do_umount_all) IN If(r, Run(sync_disks) ** Ok, Run(sync_disks) ** Bad) \cup (Run(sync_disks) ** Ok)
do_modprobe == FinishCommand
do_utsname == Try(Sys, Fail) ** Try(Growing("ret", Alloc), Fail) ** Try(Alloc, Perror ** Free("ret") ** Bad) ** Give("ret") ** Ok
do_dmesg == Output ** Give("out") ** Ok
do_sleep == Host ** Ok
do_echo_daemon == Finish(Alloc)
do_ping_daemon == Ok
-----------------------------------------------------------------------------
(* The table *)

\* The arguments and the result of each call, from the generator's table of actions.
SystemProcs ==
  {OnDevice("mount_vfs", do_mount_vfs), OnDevice("mount", do_mount), OnDevice("mount_ro", do_mount),
   OnDevice("mount_options", do_mount), OnPath("umount", do_umount(FALSE)),
   OnDevice("umount", do_umount(TRUE)), OnDevice("mounts", mounts_or_mountpoints), OnDevice("mountpoints", mounts_or_mountpoints),
   OnDevice("umount_all", do_umount_all), OnPath("mount_loop", do_mount_loop), OnPath("remount", do_remount),
   OnDevice("mkmountpoint", do_mkmountpoint), OnDevice("rmmountpoint", do_mkmountpoint),
   OnDevice("command", do_command), OnDevice("command_lines", do_command_lines), OnDevice("sh", do_sh),
   OnDevice("sh_lines", do_sh_lines), OnPath("aug_init", do_aug_init), OnDevice("aug_close", do_aug_close),
   OnDevice("aug_defvar", Library), OnDevice("aug_defnode", do_aug_defnode), OnDevice("aug_get", do_aug_defnode),
   OnDevice("aug_set", do_aug_set), OnDevice("aug_clear", do_aug_set), OnDevice("aug_insert", do_aug_set),
   OnDevice("aug_rm", do_aug_set), OnDevice("aug_mv", do_aug_set), OnDevice("aug_match", do_aug_match),
   OnDevice("aug_save", do_aug_save), OnDevice("aug_load", do_aug_save), OnDevice("aug_ls", do_aug_ls),
   OnDevice("aug_setm", do_aug_setm), OnDevice("aug_label", do_aug_label), OnPath("hivex_open", do_hivex_open),
   OnDevice("hivex_close", do_hivex_close), OnDevice("hivex_root", Handle),
   OnDevice("hivex_node_name", Handle), OnDevice("hivex_node_children", do_hivex_node_children),
   OnDevice("hivex_node_get_child", do_hivex_node_get_child), OnDevice("hivex_node_parent", do_hivex_node_get_child),
   OnDevice("hivex_node_values", do_hivex_node_values), OnDevice("hivex_node_get_value", do_hivex_node_get_value),
   OnDevice("hivex_value_key", do_hivex_node_get_value), OnDevice("hivex_value_type", do_hivex_node_get_value),
   Proc("hivex_value_value", FALSE, "none", TRUE, do_hivex_value_value), OnDevice("hivex_commit", do_hivex_commit),
   OnDevice("hivex_node_add_child", do_hivex_node_add_child),
   OnDevice("hivex_node_delete_child", do_hivex_node_add_child),
   OnDevice("hivex_node_set_value", do_hivex_node_add_child), OnPath("journal_open", do_journal_open),
   OnDevice("journal_close", do_journal_close), OnDevice("journal_next", do_journal_next),
   OnDevice("journal_skip", do_journal_skip),
   Proc("internal_journal_get", FALSE, "out", FALSE, do_internal_journal_get),
   OnDevice("journal_get_data_threshold", do_journal_get_data_threshold),
   OnDevice("journal_set_data_threshold", do_journal_get_data_threshold),
   OnDevice("journal_get_realtime_usec", do_journal_get_data_threshold), OnDevice("inotify_close", do_inotify_close),
   OnDevice("inotify_init", do_inotify_init), OnPath("inotify_add_watch", do_inotify_add_watch),
   OnDevice("inotify_rm_watch", do_inotify_rm_watch), OnDevice("inotify_read", do_inotify_read),
   OnDevice("inotify_files", do_inotify_files), OnDevice("drop_caches", do_drop_caches),
   OnDevice("debug", do_debug), Proc("debug_upload", FALSE, "in", FALSE, do_debug_upload),
   Proc("internal_upload", FALSE, "in", FALSE, do_debug_upload),
   Proc("internal_rhbz914931", FALSE, "in", FALSE, do_internal_rhbz914931), OnDevice("syslinux", do_syslinux),
   OnPath("extlinux", do_extlinux), OnPath("grub_install", do_grub_install),
   OnDevice("internal_autosync", do_internal_autosync), OnDevice("modprobe", do_modprobe),
   OnDevice("utsname", do_utsname), OnDevice("dmesg", do_dmesg), OnDevice("sleep", do_sleep),
   OnDevice("echo_daemon", do_echo_daemon), OnDevice("ping_daemon", do_ping_daemon)}
=============================================================================
