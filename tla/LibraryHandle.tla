---------------------------- MODULE LibraryHandle ----------------------------
(***************************************************************************)
(* The handle and its drives: src/drives.c, handle.c, info.c, create.c,    *)
(* libvirt-domain.c, libvirt-auth.c; files, directories and commands on    *)
(* the host: src/tmpdirs.c, journal.c, listfs.c, file.c, command.c,        *)
(* utils.c, appliance.c; and launching the appliance: src/launch.c,        *)
(* launch-direct.c, launch-libvirt.c, launch-uml.c, conn-socket.c.  Each   *)
(* definition is the set of paths of the C function it is named after,     *)
(* without the prefix guestfs__ or guestfs___, and of its neighbours with  *)
(* the same paths; the long ones are in parts, and several tests of the    *)
(* arguments are one Refuse.  What the handle, the hypervisor and the      *)
(* recovery process do together is the subject of GuestfsLaunch.           *)
(***************************************************************************)
EXTENDS LibraryInspect

(* drives.c *)

create_overlay == Refuse ** Must(Call) ** Ok
create_drive_file == Grow("drv") ** Opt(Try(Of(create_overlay), Free("drv") ** Bad)) ** Give("drv") ** Ok

\* The servers are the caller's until the drive is made: the failing path takes them out of the drive before freeing it.
create_drive_non_file_frees ==
  Grow("drv") ** Opt(Try(Of(create_overlay), Dangle("servers") ** Free("drv") ** Bad)) ** Give("drv") ** Ok
create_drive_non_file ==
  Grow("drv") ** Opt(Try(Of(create_overlay), Free("drv") ** Bad)) ** Give("drv") ** Ok
\* create_drive_gluster too.
create_drive_curl == Refuse ** create_drive_non_file
create_drive_nbd == Refuse ** Opt(Host) ** create_drive_non_file
create_drive_rbd == Loop(Refuse) ** Refuse ** create_drive_non_file
create_drive_sheepdog == Refuse ** Loop(Refuse) ** Refuse ** create_drive_non_file
\* create_drive_iscsi too.
create_drive_ssh == Refuse ** create_drive_non_file
create_drive_dev_null == Refuse ** Must(Call) ** Must(Call) ** create_drive_file
create_drive_dummy == create_drive_file

\* The name and the port are freed by the path that finds fault with them: the caller frees only the earlier servers.
parse_one_server ==
  LET unix == Refuse ** Grow("hostname") ** Give("hostname") ** Ok
      host_port == Grow("hostname") ** Grow("port_str") ** Opt(Error ** Free("hostname") ** Free("port_str") ** Bad)
                   ** Free("port_str") ** Opt(Error ** Free("hostname") ** Bad) ** Give("hostname") ** Ok
  IN  Opt(unix) ** Opt(host_port) ** Refuse ** Grow("hostname") ** Give("hostname") ** Ok
parse_servers == Opt(Ok) ** Grow("servers") ** Loop(Try(Of(parse_one_server), Free("servers") ** Bad)) ** Ok

\* After the drive is made it owns the servers; after it is in the handle the handle owns it.
add_drive_opts ==
  LET error == Free("servers") ** Bad
      Made(f) == Try(Of(f), error)
      file == Opt(Error ** error) ** Refuse ** (Made(create_drive_dev_null) \cup (MustSys(Sys) ** Made(create_drive_file)))
      remote ==
        UNION {Made(f) : f \in {create_drive_curl, create_drive_curl, create_drive_ssh, create_drive_nbd,
                                create_drive_rbd, create_drive_sheepdog, create_drive_ssh}}
      unknown == Error ** error
      hotplug == Opt(Error ** Free("drv") ** Bad) ** Try(Call, Free("drv") ** Bad) ** Give("drv") ** Must(Call) ** Ok
  IN  Opt(Must(Of(parse_servers))) ** Opt(Error ** error) ** ((Free("servers") ** file) \cup remote \cup unknown)
      ** Give("servers") ** Grow("drv") ** ((Give("drv") ** Ok) \cup hotplug)
\* add_drive_with_if and add_drive_ro_with_if too.
add_drive_ro == Must(Call) ** Ok
add_drive_scratch == Must(Call) ** Must(Call) ** Must(Call) ** Ok
add_cdrom == Must(Call) ** Ok
remove_drive == Refuse ** Opt(Ok) ** Refuse ** Must(Call) ** Must(Call) ** Must(Call) ** Ok

-----------------------------------------------------------------------------
(* handle.c *)

\* Settings that come from the environment: the first that is wrong ends it.
parse_environment == Opt(Must(Call)) ** Refuse ** Opt(Must(Call)) ** Opt(MustSys(Alloc) ** Must(Call)) ** Ok

\* What is wrong in the environment is shown, and the handle is created all the same.
guestfs_create_flags ==
  LET error == Free("g") ** Bad
  IN  Opt(Bad) ** Grow("g") ** Opt(error) ** Opt(Checks) ** Opt(Get("handles_lock") ** Host ** Put("handles_lock"))
      ** Give("g") ** Ok

\* autosync, the backend and the socket: each is done whatever became of the one before.
shutdown_backend ==
  Opt(Ok) ** If(Call, If(Call, Opt(Host) ** Ok, Opt(Host) ** Bad), Ignore(Call) ** Opt(Host) ** Bad)
guestfs_close ==
  Opt(Get("handles_lock") ** Put("handles_lock")) ** Opt(Run(shutdown_backend)) ** Host ** Free("g") ** Ok

set_qemu == Refuse ** Ok
set_memsize == Refuse ** Ok
set_smp == Refuse ** Ok
set_backend == Refuse ** Ok
\* get_backend_settings too.
set_backend_settings == MustSys(Alloc) ** Ok
get_backend_setting == Refuse ** Ok
\* A setting that is not there is false, and not worth an error.
get_backend_setting_bool == If(Quietly(Call), Ok, Ok \cup Bad)

-----------------------------------------------------------------------------
(* info.c *)

\* qemu-img --help usually fails, and what cannot be run is shown.
which_parser == Opt(Checks) ** Ok
\* disk_virtual_size and disk_has_backing_file too.
disk_format == Run(which_parser) ** Must(Call) ** Ok
\* get_disk_virtual_size and get_disk_has_backing_file too.
get_disk_format == Must(Call) ** Refuse ** Ok

\* The callback that reads the output of qemu-img: nothing, something that is no document, or a document.
parse_json == Ev("return", "empty") \cup FailMsg \cup (Grow("tree") ** Ok)
\* A program that prints a document and fails all the same: the document is never freed.
get_json_output ==
  LET close(A) == A ** Close("fd") ** Bad
      Ran(v, A) ==
        Returns(parse_json, v) ** ((Call.bad ** Close("fd") ** Bad) \cup (Call.ok ** Close("fd") ** (FailMsg \cup A)))
  IN  MustSys(Open("fd")) ** Try(Sys, close(Perror)) ** Opt(close(Error))
      ** (Ran("empty", FailMsg) \cup Ran("bad", Bad) \cup Ran("ok", Give("tree") ** Ok))

old_parser_run_qemu_img_info == Must(Call) ** MustSys(Sys) ** MustSys(Sys) ** Must(Call) ** Refuse ** Ok
old_parser_disk_format == Opt(Grow("ret")) ** Try(Of(old_parser_run_qemu_img_info), Free("ret") ** Bad) ** Give("ret") ** Ok
\* A size that cannot be read is an error, and 0 is returned.
old_parser_disk_virtual_size == Must(Of(old_parser_run_qemu_img_info)) ** Opt(Error) ** Ok
old_parser_disk_has_backing_file == Must(Of(old_parser_run_qemu_img_info)) ** Ok

-----------------------------------------------------------------------------
(* create.c *)

disk_create == Refuse ** Must(Call) ** Ok
\* A block device is discarded if it can be.
disk_create_raw_block == MustSys(Open("fd")) ** Opt(Host) ** Close("fd") ** Ok
\* A file that could not be made as large as asked is removed.
disk_create_raw ==
  LET error == Perror ** Close("fd") ** Put("file") ** Bad
  IN  Refuse ** Opt(Sys.ok ** Refuse ** Opt(Must(Of(disk_create_raw_block)) ** Ok))
      ** MustSys(Open("fd")) ** Get("file") ** Try(Sys, error) ** Try(Closing("fd"), Perror ** Put("file") ** Bad)
      ** Give("file") ** Ok
disk_create_qcow2 == Refuse ** If(Call, Refuse ** Ok, FailMsg)

-----------------------------------------------------------------------------
(* libvirt-domain.c *)

\* A libvirt call: its failure is told by libvirt's own error.
VirCall == [ok |-> Host, bad |-> Host]

add_domain ==
  LET cleanup(v) == Free("dom") ** Free("conn") ** Ev("return", v)
  IN  Refuse ** Try(Growing("conn", VirCall), Error ** cleanup("bad"))
      ** If(Growing("dom", VirCall), Skip, Try(Growing("dom", VirCall), Error ** cleanup("bad")))
      ** If(Call, cleanup("ok"), cleanup("bad"))

get_domain_xml == Try(Growing("xml", VirCall), FailMsg) ** Free("xml") ** Refuse ** Ok
libvirt_selinux_label == Refuse ** Ok
add_disk == Opt(Ok) ** Refuse ** Must(Call) ** Ok
\* A server list that cannot be completed is freed, though its end has not been marked.
for_each_disk ==
  LET server == Ev("null", "end") ** Try(Alloc, Perror ** Use("end") ** Bad)
  IN  Refuse ** Loop(Opt(server) ** Must(Of(add_disk))) ** Refuse ** Ok
\* A path that cannot be read is freed here and once more on leaving the block.
connect_live ==
  LET xppath == Grow("xppath") ** Opt(Dangle("xppath")) ** Free("xppath")
  IN  Must(Of(get_domain_xml)) ** Refuse ** Loop(xppath) ** Refuse ** Must(Call) ** Ok
\* All disks are added or none.
add_libvirt_dom ==
  Refuse ** Opt(Try(VirCall, FailMsg) ** Opt(Must(Call) ** Ok) ** Refuse) ** Must(Of(get_domain_xml))
  ** Must(Of(libvirt_selinux_label)) ** Host ** Grow("drives") ** If(Call, Give("drives") ** Ok, Free("drives") ** Bad)

-----------------------------------------------------------------------------
(* libvirt-auth.c *)

set_libvirt_supported_credentials == Loop(Refuse) ** Ok
\* The name of the host is measured, and there is none when the default one is used.
libvirt_auth_callback == Opt(Ok) ** Opt(Ev("null", "saved_libvirt_uri")) ** Use("saved_libvirt_uri") ** Host ** Ok
\* CHECK_IN_EVENT_HANDLER, and an index out of range.
get_libvirt_requested_credentials == Refuse ** Ok
\* So for the challenge and the default result of a credential, and for setting its result.
get_libvirt_requested_credential_prompt == Refuse ** Refuse ** Ok
-----------------------------------------------------------------------------
(* The table *)

DriveFns ==
  {Fn("create_overlay", create_overlay), Fn("create_drive_file", create_drive_file),
   Fn("create_drive_non_file", create_drive_non_file), Fn("create_drive_curl", create_drive_curl),
   Fn("create_drive_gluster", create_drive_curl), Fn("create_drive_nbd", create_drive_nbd),
   Fn("create_drive_rbd", create_drive_rbd), Fn("create_drive_sheepdog", create_drive_sheepdog),
   Fn("create_drive_ssh", create_drive_ssh), Fn("create_drive_iscsi", create_drive_ssh),
   Fn("create_drive_dev_null", create_drive_dev_null), Fn("create_drive_dummy", create_drive_dummy),
   Fn("parse_one_server", parse_one_server), Fn("add_drive_opts", add_drive_opts), Fn("add_drive_ro", add_drive_ro),
   Fn("add_drive_with_if", add_drive_ro), Fn("add_drive_ro_with_if", add_drive_ro),
   Fn("add_drive_scratch", add_drive_scratch), Fn("add_cdrom", add_cdrom), Fn("remove_drive", remove_drive),
   Fn("parse_environment", parse_environment), Fn("guestfs_create_flags", guestfs_create_flags),
   Fn("shutdown_backend", shutdown_backend), Fn("guestfs_close", guestfs_close), Fn("set_qemu", set_qemu),
   Fn("set_memsize", set_memsize), Fn("set_smp", set_smp), Fn("set_backend", set_backend),
   Fn("set_backend_settings", set_backend_settings), Fn("get_backend_settings", set_backend_settings),
   Fn("get_backend_setting", get_backend_setting), Fn("get_backend_setting_bool", get_backend_setting_bool),
   Fn("which_parser", which_parser), Fn("disk_format", disk_format), Fn("disk_virtual_size", disk_format),
   Fn("disk_has_backing_file", disk_format), Fn("get_disk_format", get_disk_format),
   Fn("get_disk_virtual_size", get_disk_format), Fn("get_disk_has_backing_file", get_disk_format),
   Fn("get_json_output", get_json_output), Fn("old_parser_run_qemu_img_info", old_parser_run_qemu_img_info),
   Fn("old_parser_disk_format", old_parser_disk_format),
   Fn("old_parser_disk_virtual_size", old_parser_disk_virtual_size),
   Fn("old_parser_disk_has_backing_file", old_parser_disk_has_backing_file), Fn("disk_create", disk_create),
   Fn("disk_create_raw_block", disk_create_raw_block), Fn("disk_create_raw", disk_create_raw),
   Fn("disk_create_qcow2", disk_create_qcow2), Fn("add_domain", add_domain), Fn("get_domain_xml", get_domain_xml),
   Fn("libvirt_selinux_label", libvirt_selinux_label), Fn("add_disk", add_disk), Fn("for_each_disk", for_each_disk),
   Fn("connect_live", connect_live), Fn("add_libvirt_dom", add_libvirt_dom),
   Fn("set_libvirt_supported_credentials", set_libvirt_supported_credentials),
   Fn("libvirt_auth_callback", libvirt_auth_callback),
   Fn("get_libvirt_requested_credentials", get_libvirt_requested_credentials),
   Fn("get_libvirt_requested_credential_prompt", get_libvirt_requested_credential_prompt),
   Fn("get_libvirt_requested_credential_challenge", get_libvirt_requested_credential_prompt),
   Fn("get_libvirt_requested_credential_defresult", get_libvirt_requested_credential_prompt),
   Fn("set_libvirt_requested_credential", get_libvirt_requested_credential_prompt)}

-----------------------------------------------------------------------------
(* tmpdirs.c *)

set_abs_path ==
  Opt(Ok) ** MustSys(Growing("ret", Sys)) ** MustSys(Sys) ** Refuse ** Give("ret") ** Ok
\* set_tmpdir too.
set_env_tmpdir == Must(Of(set_abs_path)) ** Ok
set_cachedir == Must(Of(set_abs_path)) ** Ok
lazy_make_tmpdir == Opt(Ok) ** Grow("tmpdir") ** Try(Sys, Perror ** Free("tmpdir") ** Bad) ** Give("tmpdir") ** Ok
recursive_remove_dir == Checks ** Ok

-----------------------------------------------------------------------------
(* file.c and journal.c *)

\* A file that was downloaded is read into memory and closed.  After a failing close it is closed again.
Slurp(alloc) ==
  LET err == Perror ** Free("ret") ** Close("fd") ** Bad
  IN  MustSys(Open("fd")) ** Try(Sys, err) ** Try(alloc, err) ** Try(Sys, err) ** Try(Closing("fd"), err)

\* The list grows by one string at a time.
StringList ==
  MustSys(Growing("ret", Alloc)) ** Loop(Try(Growing("ret", Alloc), Perror ** Free("ret") ** Bad)) ** Give("ret") ** Ok

cat == Must(Call) ** Ok
read_file == Must(Call) ** Must(Call) ** Slurp(Growing("ret", Alloc)) ** Give("ret") ** Ok
read_lines == Must(Call) ** StringList
find == Must(Call) ** Must(Call) ** Slurp(Alloc) ** StringList
ls == Must(Call) ** Must(Call) ** Slurp(Alloc) ** StringList

\* A large file goes through a temporary one: uploaded in place, or beyond the size that the file had when asked.
write_or_append ==
  LET small == Must(Call) ** Ok
      err == Perror ** Close("fd") ** Bad
      large == Must(Call) ** MustSys(Open("fd")) ** Try(Sys, err) ** Try(Closing("fd"), err)
               ** Opt(Must(Call)) ** Must(Call) ** Ok
  IN  small \cup large
\* write_append too.
write == Must(Call) ** Ok

\* The names are asked for in batches of at most a thousand.
\* lstatnslist and lxattrlist too.
Batches == Grow("ret") ** Loop(Try(Call, Free("ret") ** Bad)) ** Give("ret") ** Ok

\* The list has no NULL at its end before the last batch is in.
readlinklist ==
  Opt(Must(Call) ** Grow("ret") ** Ev("null", "end") ** Opt(Try(Call, Use("end") ** Free("ret") ** Bad)))
  ** Grow("ret") ** Give("ret") ** Ok
\* lstat and lstatlist too.
stat == Must(Call) ** Ok

journal_get ==
  Must(Call) ** Must(Call) ** Slurp(Alloc) ** Grow("ret") ** Loop(Opt(Error ** Free("ret") ** Bad)) ** Give("ret") ** Ok

-----------------------------------------------------------------------------
(* listfs.c *)

check_with_vfs_type == Ignore(Quietly(Call)) ** Opt(Must(Call)) ** Ok

\* The handler pushed is popped on every path.
is_mbr_partition_type_42_pushed ==
  Push ** Try(Call, Ok) ** Try(Call, Pop ** Ok) ** Ignore(Call) ** Pop ** Ok
is_mbr_partition_type_42 ==
  Push ** Try(Call, Pop ** Ok) ** Try(Call, Pop ** Ok) ** Ignore(Call) ** Pop ** Ok

\* The loops over the lists come after the tests of all of them.
list_filesystems_untested ==
  LET error == Free("ret") ** Bad
  IN  Checks ** Try(Yields("devices", Call), error) ** Ignore(Yields("partitions", Call)) ** Use("partitions") ** Ok
list_filesystems ==
  LET error == Free("ret") ** Bad
      Check == Loop(Grow("ret") ** Try(Call, error))
      List(r) == Try(Yields(r, Call), error)
  IN  Checks ** List("devices") ** List("partitions") ** List("mds") ** Use("partitions") ** Checks
      ** Use("devices") ** Check ** Opt(List("lvs") ** Use("lvs") ** Check)
      ** Opt(List("ldmvols") ** Use("ldmvols") ** List("ldmparts") ** Use("ldmparts")) ** Give("ret") ** Ok

-----------------------------------------------------------------------------
(* command.c *)

\* The child ends in exec or _exit whatever happens; pipes that were not asked for are -1.
run_command_returns ==
  LET error == Perror ** Free("errorfd") ** Free("outfd") ** Bad
  IN  Opt(Try(Growing("errorfd", Sys), error)) ** Opt(Try(Growing("outfd", Sys), error))
      ** Fork(Try(Sys, error) ** Exit, error) ** Ok
run_command ==
  LET error == Perror ** Free("errorfd") ** Free("outfd") ** Bad
  IN  Opt(Try(Growing("errorfd", Sys), error)) ** Opt(Try(Growing("outfd", Sys), error))
      ** Fork(Host ** Exit, error) ** Ok

\* One pipe until its end: an error of read or close is shown, and the loop goes on.
Drain(fd) ==
  Host ** (Free(fd) \cup (Free(fd) ** Errno ** Perror) \cup (Errno ** Perror ** Free(fd)))
loop == MustSys(Sys) ** Drain("errorfd") ** MustSys(Sys) ** Drain("outfd") ** Ok
wait_command == MustSys(Sys) ** Wait ** Ok
cmd_run == Must(Of(run_command)) ** Must(Of(loop)) ** Must(Of(wait_command)) ** Ok
cmd_close == Free("errorfd") ** Free("outfd") ** Free("pid")

\* A command from beginning to end, as CLEANUP_CMD_CLOSE makes it.
cleanup_cmd_close == If(Of(cmd_run), cmd_close ** Ok, cmd_close ** Bad)

-----------------------------------------------------------------------------
(* utils.c: functions without a handle *)

copy_string_list == Try(Growing("ret", Alloc), Bad) ** Loop(Try(Growing("ret", Alloc), Free("ret") ** Bad)) ** Give("ret") ** Ok
join_strings == Try(Growing("r", Alloc), Bad) ** Give("r") ** Ok
split_string ==
  LET empty == Try(Growing("ret", Alloc), Bad) ** Give("ret") ** Ok
  IN  empty \cup copy_string_list

\* The errno of the read is kept over the close: the callers report it.
random_string_spoils ==
  Try(Open("fd"), Bad) ** Loop(Try(Sys, Ignore(Closing("fd")) ** Host ** Bad)) ** Try(Closing("fd"), Bad) ** Ok
random_string ==
  Try(Open("fd"), Bad) ** Loop(Try(Sys, Save ** Ignore(Closing("fd")) ** Host ** Restore ** Bad))
  ** Try(Closing("fd"), Bad) ** Ok

-----------------------------------------------------------------------------
(* appliance.c *)

find_path ==
  Loop(Grow("pelem") ** Host ** Opt(Give("pelem") ** Ok) ** Free("pelem")) ** Ev("return", "none")

\* The exit status of supermin is tested.
run_supermin_build_mute == Must(Call) ** Opt(Bad) ** Ok
run_supermin_build == Must(Call) ** Refuse ** Ok

\* Without the directory of the cache it returns success and names no kernel.
build_supermin_appliance ==
  Host ** Try(Sys, Ev("null", "kernel") ** Ok) ** Refuse ** Must(Of(run_supermin_build)) ** Host ** Ok

\* An appliance for supermin, a fixed one, an old-style one, or none; the caller uses the name of the kernel.
build_appliance ==
  LET found == Returns(find_path, "ok")
      none == Returns(find_path, "none")
      supermin == Must(Of(build_supermin_appliance)) ** Use("kernel") ** Ok
      fixed == (found ** Ok) \cup (none ** ((found ** Ok) \cup FailMsg))
  IN  (found ** supermin) \cup (none ** fixed)
-----------------------------------------------------------------------------
(* The table *)

FileFns ==
  {Fn("set_abs_path", set_abs_path), Fn("set_env_tmpdir", set_env_tmpdir), Fn("set_tmpdir", set_env_tmpdir),
   Fn("set_cachedir", set_cachedir), Fn("lazy_make_tmpdir", lazy_make_tmpdir),
   Fn("recursive_remove_dir", recursive_remove_dir), Fn("cat", cat), Fn("read_file", read_file),
   Fn("read_lines", read_lines), Fn("find", find), Fn("ls", ls), Fn("write_or_append", write_or_append),
   Fn("write", write), Fn("write_append", write), Fn("lstatnslist", Batches),
   Fn("lxattrlist", Batches), Fn("readlinklist", readlinklist), Fn("stat", stat), Fn("lstat", stat),
   Fn("lstatlist", stat), Fn("journal_get", journal_get), Fn("check_with_vfs_type", check_with_vfs_type),
   Fn("is_mbr_partition_type_42", is_mbr_partition_type_42), Fn("list_filesystems", list_filesystems),
   Fn("cleanup_cmd_close", cleanup_cmd_close), Fn("copy_string_list", copy_string_list),
   Fn("join_strings", join_strings), Fn("split_string", split_string), Fn("random_string", random_string),
   Fn("run_supermin_build", run_supermin_build), Fn("build_appliance", build_appliance)}

(* launch.c *)

launch == Refuse ** Must(Call) ** Host ** Must(Call) ** Ok
get_pid == Refuse ** Refuse ** Must(Call) ** Ok
max_disks == Refuse ** Must(Call) ** Ok
wait_ready == Refuse ** Ok
kill_subprocess == Must(Call) ** Ok
config == Loop(Refuse) ** Ok
appliance_command_line == Opt(Checks) ** Ok
get_umask == Try(Open("fd"), Bad) ** Try(Sys, Close("fd") ** Bad) ** Close("fd") ** Ok

-----------------------------------------------------------------------------
(* conn-socket.c: 1 or a length, 0 when the appliance has gone, -1 *)

Gone == Ev("return", "gone")

\* EINTR and EAGAIN are tried again.
Retried(c) == Loop(c.bad) ** c.ok

handle_log_message == Host ** Opt(Gone) ** Try(Sys, Fail \cup Ok) ** Ok
LogMessage == Returns(handle_log_message, "ok") \cup (Returns(handle_log_message, "gone") ** Gone)
              \cup (Returns(handle_log_message, "bad") ** Bad)

read_data == Refuse ** Retried(Sys) ** MustSys(Sys) ** Opt(LogMessage) ** Retried(Sys)
             ** Try(Sys, Fail \cup (Checks ** Gone)) ** Ok
can_read_data == Refuse ** Retried(Sys) ** MustSys(Sys) ** Ok
write_data == Refuse ** Retried(Sys) ** MustSys(Sys) ** Opt(LogMessage) ** Retried(Sys) ** Try(Sys, Fail \cup Gone) ** Ok
accept_connection ==
  Refuse ** Retried(Sys) ** MustSys(Sys) ** Refuse ** Opt(LogMessage) ** Retried(Sys)
  ** MustSys(Open("sock")) ** Give("sock") ** MustSys(Sys) ** Ok

-----------------------------------------------------------------------------
(* launch-direct.c *)

\* A command whose whole output is given to a callback: not when reading it fails, which is shown and passed over.
Output(r) == [ok |-> Host \cup (Host ** Errno ** Perror ** Ev("null", r)), bad |-> Host ** Error]

create_cow_overlay_direct ==
  Must(Call) ** Must(Call) ** Grow("overlay") ** Try(Call, Free("overlay") ** Bad) ** Give("overlay") ** Ok
test_qemu == Must(Output("qemu_help")) ** Refuse ** Must(Call) ** Refuse ** Must(Output("qemu_devices")) ** Refuse ** Ok
qemu_supports == Opt(Must(Of(test_qemu))) ** Use("qemu_help") ** Ok
qemu_supports_device == Opt(Must(Of(test_qemu))) ** Use("qemu_devices") ** Ok
is_openable == Try(Open("fd"), Ok) ** Close("fd") ** Ok

\* When qemu cannot be tested it answers no.
qemu_supports_virtio_scsi == Opt(Try(Call, Ok)) ** Opt(Checks) ** Ok
max_disks_direct == Run(qemu_supports_virtio_scsi) ** Ok

\* xmlSaveUri returns NULL when it has no memory.
make_uri == Try(Alloc, Bad) ** Ok
drive_source_qemu_param == (MustSys(Growing("path", Sys)) ** Give("path") ** Ok) \cup make_uri \cup Ok

\* The protocols that cannot discard are refused with -1, which is true.
discard_possible == Loop(Refuse) ** Opt(Error ** Ok) ** Ok

\* Descriptors are -1 until they are open, and after the connection owns them.
cleanup0_direct == Free("daemon_accept_sock") ** Free("console_sock") ** Free("conn") ** Bad
cleanup1_direct == Free("pid") ** Free("recoverypid") ** cleanup0_direct
launch_direct_checks == Refuse ** Must(Call) ** Must(Call) ** Try(Call, cleanup0_direct)
launch_direct_sockets ==
  LET failed == Perror ** cleanup0_direct
  IN  Try(Growing("daemon_accept_sock", Sys), failed) ** Try(Sys, failed) ** Opt(Try(Growing("sv", Sys), failed))
launch_direct_options == Checks ** Host
launch_direct_drives ==
  Opt(Opt(Try(Call, cleanup0_direct)) ** Ignore(Yields("file", Call)) ** Use("file"))
launch_direct_devices == Checks ** Host
launch_direct_fork == Fork(Host ** Exit, Perror ** Free("sv") ** cleanup0_direct)
launch_direct_recovery == Opt(Host \cup (Host ** Grow("recoverypid")) \cup (Ev("child", "") ** Loop(Host) ** Exit))
launch_direct_wait ==
  Free("sv") ** Grow("console_sock") ** Try(Call, cleanup1_direct)
  ** Free("daemon_accept_sock") ** Free("console_sock") ** Grow("conn") ** Try(Call, cleanup1_direct)
  ** Opt(Error ** cleanup1_direct) ** Give("conn") ** Give("pid") ** Give("recoverypid") ** Ok
launch_direct ==
  launch_direct_checks ** launch_direct_sockets ** launch_direct_options ** launch_direct_drives
  ** launch_direct_devices ** launch_direct_fork ** launch_direct_recovery ** launch_direct_wait

\* Without a recovery process nobody waits for the hypervisor; with one, both are waited for whatever the first said.
shutdown_direct ==
  LET failed == (Host ** Errno ** Perror) \cup (Host ** Error)
      recovered == Grow("recoverypid") ** ((Host ** Free("pid") ** Free("recoverypid") ** Ok)
                   \cup (failed ** Free("pid") ** Free("recoverypid") ** Bad))
  IN  Grow("pid") ** (recovered \cup Ok)
get_pid_direct == Refuse ** Ok

-----------------------------------------------------------------------------
(* launch-uml.c *)

\* create_cow_overlay_uml too.
make_cow_overlay ==
  Must(Call) ** Grow("overlay") ** Try(Call, Free("overlay") ** Bad) ** Opt(Error ** Free("overlay") ** Bad)
  ** Give("overlay") ** Ok
uml_supported == Loop(Refuse) ** Ok

cleanup0_uml == Free("daemon_sock") ** Free("console_sock") ** Free("conn") ** Bad
cleanup1_uml == Free("csv") ** Free("dsv") ** Free("pid") ** Free("recoverypid") ** cleanup0_uml
launch_uml_sockets ==
  Must(Call) ** Refuse ** MustSys(Of(random_string)) ** Must(Call) ** Opt(Try(Call, cleanup0_uml))
  ** Try(Growing("dsv", Sys), Perror ** cleanup0_uml) ** Opt(Try(Growing("csv", Sys), Perror ** Free("dsv") ** cleanup0_uml))
launch_uml_fork == Host ** Fork(Host ** Exit, Perror ** Free("csv") ** Free("dsv") ** cleanup0_uml)
launch_uml_recovery == Opt(Host \cup (Host ** Grow("recoverypid")) \cup (Ev("child", "") ** Loop(Host) ** Exit))
launch_uml_wait ==
  Free("csv") ** Grow("console_sock") ** Grow("daemon_sock") ** Free("dsv") ** Try(Call, cleanup1_uml)
  ** Free("daemon_sock") ** Free("console_sock") ** Grow("conn") ** Try(Call, cleanup1_uml)
  ** Opt(Error ** cleanup1_uml) ** Give("conn") ** Give("pid") ** Give("recoverypid") ** Ok
launch_uml == launch_uml_sockets ** launch_uml_fork ** launch_uml_recovery ** launch_uml_wait
shutdown_uml ==
  LET failed == (Host ** Errno ** Perror) \cup (Host ** Error)
  IN  Grow("pid") ** Opt(Grow("recoverypid")) ** ((Host ** Free("pid") ** Free("recoverypid") ** Ok)
      \cup (failed ** Free("pid") ** Free("recoverypid") ** Bad))
get_pid_uml == Refuse ** Ok

-----------------------------------------------------------------------------
(* launch-libvirt.c *)

make_qcow2_overlay == Must(Call) ** Grow("overlay") ** Try(Call, Free("overlay") ** Bad) ** Give("overlay") ** Ok
create_cow_overlay_libvirt == Must(Call) ** Must(Call) ** Ok

cleanup_libvirt ==
  Free("sockcreatecon") ** Free("console_sock") ** Free("daemon_accept_sock") ** Free("g_conn") ** Free("dom") ** Free("conn")
  ** Free("params") ** Bad
launch_libvirt_connect ==
  Loop(Refuse) ** MustSys(Of(random_string)) ** Try(Growing("conn", Call), cleanup_libvirt) ** Try(Call, cleanup_libvirt)

\* The labels and the bridge are kept in the data of the backend, and freed when it is shut down.
launch_libvirt_settings == Push ** Opt(Checks ** Grow("labels")) ** Pop
launch_libvirt_appliance == Try(Growing("params", Call), cleanup_libvirt) ** Opt(Try(Call, cleanup_libvirt))

\* The sockets are made under a context of their own, which is cleared also when one of them fails.
launch_libvirt_sockets ==
  LET failed == Perror ** cleanup_libvirt
  IN  Grow("sockcreatecon") ** Try(Growing("daemon_accept_sock", Sys), failed) ** Try(Sys, failed)
      ** Try(Growing("console_sock", Sys), failed) ** Try(Sys, failed) ** Free("sockcreatecon") ** Opt(Loop(Try(Sys, failed)))
launch_libvirt_domain ==
  Try(Call, cleanup_libvirt) ** Checks ** Try(Growing("dom", Call), cleanup_libvirt)
launch_libvirt_wait ==
  LET failed == Perror ** cleanup_libvirt
  IN  Try(Open("r"), failed) ** Free("console_sock") ** ((Errno ** Perror ** Close("r") ** cleanup_libvirt) \cup
      (Close("r") ** Grow("console_sock"))) ** Try(Call, cleanup_libvirt)
      ** Free("daemon_accept_sock") ** Free("console_sock") ** Grow("g_conn") ** Try(Call, cleanup_libvirt)
      ** Opt(Error ** cleanup_libvirt)
      ** Give("g_conn") ** Give("dom") ** Give("conn") ** Free("params") ** Give("labels") ** Ok
launch_libvirt ==
  launch_libvirt_connect ** launch_libvirt_settings ** launch_libvirt_appliance ** launch_libvirt_sockets
  ** launch_libvirt_domain ** launch_libvirt_wait

\* The name of the backend, for the message, is a copy that nobody frees.
parse_capabilities ==
  Loop(Refuse) ** Opt(Ignore(Yields("type", Alloc)) ** Use("type")) ** Opt(Grow("backend") ** FailMsg) ** Must(Call) ** Ok
set_socket_create_context ==
  LET out1 == Put("scon") ** Ok
      out2 == Put("con") ** out1
  IN  Try(Taking("scon", Sys), Ok) ** Try(Taking("con", Sys), out1) ** Try(Sys, out2) ** Try(Sys, out2) ** out2
debug_appliance_permissions == Checks ** Ok
debug_socket_permissions == Opt(Checks) ** Ok

\* The document is written to a buffer that the writer owns once there is a writer.
construct_libvirt_xml ==
  MustSys(Sys) ** MustSys(Growing("ob", Sys)) ** MustSys(Sys) ** Give("ob") ** MustSys(Sys) ** Must(Call) ** MustSys(Sys) ** Ok

\* start_element, attribute, string, end_element: a failing write returns at once.
Element == MustSys(Sys)
construct_libvirt_xml_domain == Element ** Loop(Must(Call)) ** Element ** Ok
construct_libvirt_xml_name == Element ** Ok
construct_libvirt_xml_cpu == Element ** Opt(Element) ** Element ** Ok
construct_libvirt_xml_boot == Opt(Checks) ** Loop(Element) ** Ok
construct_libvirt_xml_seclabel == Opt(Element) ** Opt(Element) ** Ok
construct_libvirt_xml_lifecycle == Element ** Ok
construct_libvirt_xml_devices == Opt(Element) ** Element ** Loop(Must(Call)) ** Opt(Must(Call)) ** Element ** Opt(Element) ** Ok
construct_libvirt_xml_disk ==
  LET source == Element ** Must(Call) ** Element
      file == MustSys(Sys) ** source
      format == Opt(Must(Call) ** Refuse) ** Refuse
      writable == (file \cup source \cup (Must(Call) ** source) \cup FailMsg) ** Must(Call) ** format ** Must(Call)
  IN  Refuse ** Element ** ((source ** Must(Call) ** Must(Call)) \cup writable) ** Opt(Element) ** Must(Call) ** Element ** Ok
construct_libvirt_xml_disk_target == Element ** Ok
construct_libvirt_xml_disk_driver_qemu == Opt(Must(Call)) ** Element ** Ok
construct_libvirt_xml_disk_address == Element ** Ok
construct_libvirt_xml_disk_source_hosts == Loop(Element) ** Ok
construct_libvirt_xml_disk_source_seclabel == Opt(Element) ** Ok
construct_libvirt_xml_appliance == Element ** Must(Call) ** Must(Call) ** Element ** Ok
construct_libvirt_xml_qemu_cmdline == Element ** Must(Call) ** Element ** Loop(Element) ** Element ** Ok

\* An error of virDomainDestroyFlags is the answer, after everything has been freed.
shutdown_libvirt ==
  Grow("dom") ** Grow("conn") ** Grow("labels")
  ** LET rest == Free("dom") ** Free("conn") ** Free("labels")
     IN  If(Call, rest ** Ok, rest ** Bad)
\* hot_remove_drive_libvirt too.
hot_add_drive_libvirt == Refuse ** Must(Call) ** Refuse ** Ok
construct_libvirt_xml_hot_add_disk == construct_libvirt_xml
-----------------------------------------------------------------------------
(* The table *)

LaunchFns ==
  {Fn("launch", launch), Fn("get_pid", get_pid), Fn("max_disks", max_disks), Fn("wait_ready", wait_ready),
   Fn("kill_subprocess", kill_subprocess), Fn("config", config),
   Fn("appliance_command_line", appliance_command_line), Fn("get_umask", get_umask),
   Fn("handle_log_message", handle_log_message), Fn("read_data", read_data), Fn("can_read_data", can_read_data),
   Fn("write_data", write_data), Fn("accept_connection", accept_connection),
   Fn("create_cow_overlay_direct", create_cow_overlay_direct), Fn("qemu_supports", qemu_supports),
   Fn("qemu_supports_device", qemu_supports_device), Fn("is_openable", is_openable),
   Fn("qemu_supports_virtio_scsi", qemu_supports_virtio_scsi), Fn("max_disks_direct", max_disks_direct),
   Fn("make_uri", make_uri), Fn("drive_source_qemu_param", drive_source_qemu_param),
   Fn("discard_possible", discard_possible), Fn("launch_direct", launch_direct),
   Fn("shutdown_direct", shutdown_direct), Fn("get_pid_direct", get_pid_direct),
   Fn("make_cow_overlay", make_cow_overlay), Fn("create_cow_overlay_uml", make_cow_overlay),
   Fn("uml_supported", uml_supported), Fn("launch_uml", launch_uml),
   Fn("shutdown_uml", shutdown_uml), Fn("get_pid_uml", get_pid_uml), Fn("make_qcow2_overlay", make_qcow2_overlay),
   Fn("create_cow_overlay_libvirt", create_cow_overlay_libvirt), Fn("launch_libvirt", launch_libvirt),
   Fn("parse_capabilities", parse_capabilities), Fn("set_socket_create_context", set_socket_create_context),
   Fn("debug_appliance_permissions", debug_appliance_permissions),
   Fn("debug_socket_permissions", debug_socket_permissions), Fn("construct_libvirt_xml", construct_libvirt_xml),
   Fn("construct_libvirt_xml_domain", construct_libvirt_xml_domain),
   Fn("construct_libvirt_xml_name", construct_libvirt_xml_name),
   Fn("construct_libvirt_xml_cpu", construct_libvirt_xml_cpu),
   Fn("construct_libvirt_xml_boot", construct_libvirt_xml_boot),
   Fn("construct_libvirt_xml_seclabel", construct_libvirt_xml_seclabel),
   Fn("construct_libvirt_xml_lifecycle", construct_libvirt_xml_lifecycle),
   Fn("construct_libvirt_xml_devices", construct_libvirt_xml_devices),
   Fn("construct_libvirt_xml_disk", construct_libvirt_xml_disk),
   Fn("construct_libvirt_xml_disk_target", construct_libvirt_xml_disk_target),
   Fn("construct_libvirt_xml_disk_driver_qemu", construct_libvirt_xml_disk_driver_qemu),
   Fn("construct_libvirt_xml_disk_address", construct_libvirt_xml_disk_address),
   Fn("construct_libvirt_xml_disk_source_hosts", construct_libvirt_xml_disk_source_hosts),
   Fn("construct_libvirt_xml_disk_source_seclabel", construct_libvirt_xml_disk_source_seclabel),
   Fn("construct_libvirt_xml_appliance", construct_libvirt_xml_appliance),
   Fn("construct_libvirt_xml_qemu_cmdline", construct_libvirt_xml_qemu_cmdline),
   Fn("shutdown_libvirt", shutdown_libvirt), Fn("hot_add_drive_libvirt", hot_add_drive_libvirt),
   Fn("hot_remove_drive_libvirt", hot_add_drive_libvirt),
   Fn("construct_libvirt_xml_hot_add_disk", construct_libvirt_xml_hot_add_disk)}

\* All functions of the tables.
Functions == InspectFns \cup DriveFns \cup FileFns \cup LaunchFns
==============================================================================
