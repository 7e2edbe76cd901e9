-------------------------- MODULE DaemonFilesystems --------------------------
(***************************************************************************)
(* The handlers of guestfsd that make, check, tune and inspect filesystems *)
(* of each kind, those that receive a file from the library or send one to *)
(* it, and those that copy within the appliance.  Each definition is the   *)
(* set of paths of the C function it is named after, and of its neighbours *)
(* with the same paths.                                                    *)
(***************************************************************************)
EXTENDS DaemonSystem, DaemonFiles

(* ext2.c *)

do_tune2fs_l == Try(Command, FailMsg) ** Refuse ** Loop(Add("ret") ** Add("ret")) ** EndStrings("ret")
do_set_e2label == do_set_label
do_get_e2label == get_blkid_tag
do_set_e2uuid == FinishCommand
do_get_e2uuid == get_blkid_tag
\* resize2fs wants a checked filesystem.
if_not_mounted_run_e2fsck == Try(Of(is_device_mounted), Bad) ** Opt(Try(Command, FailMsg)) ** Ok
\* do_resize2fs too.
Resize == Try(Of(if_not_mounted_run_e2fsck), Bad) ** FinishCommand
do_resize2fs_size == Refuse ** Resize
do_resize2fs_M == Resize
\* do_e2fsck_f too.
do_e2fsck == Refuse ** FinishCommand
\* A new filesystem on the device, which is wiped before.
Make == Run(wipe_device_before_mkfs) ** FinishCommand
do_mke2journal == Make
do_mke2journal_L == Refuse ** Make
do_mke2journal_U == Make
\* do_mke2fs_JL and do_mke2fs_JU too.
do_mke2fs_J == Refuse ** Make
do_tune2fs == Refuse ** FinishCommand
do_get_e2attrs == Try(sysroot_path, Fail) ** Output ** Give("out") ** Ok
do_set_e2attrs == Opt(Ok) ** Refuse ** Try(sysroot_path, Fail) ** FinishCommand
do_get_e2generation == Try(sysroot_path, Fail) ** Try(Command, FailMsg) ** Refuse ** Ok
do_set_e2generation == Try(sysroot_path, Fail) ** FinishCommand
mke2fs_sizes == Refuse
\* The journal's device may be named by its label or uuid, or be translated like a device argument.
mke2fs_journaldevice == Opt(Opt(Refuse ** Try(Sys, Fail)) ** Try(Alloc, Fail))
mke2fs_options == Refuse
do_mke2fs == mke2fs_sizes ** mke2fs_journaldevice ** mke2fs_options ** Make
do_mklost_and_found == Try(sysroot_path, Fail) ** Try(Sys, Fail) ** Refuse ** Ok

-----------------------------------------------------------------------------
(* ntfs.c, mkfs.c, fstrim.c *)

do_ntfs_3g_probe == Try(Command, FailMsg) ** Ok
\* do_ntfsresize_size too.
do_ntfsresize == Refuse ** FinishCommand
do_ntfsfix == FinishCommand

\* The cluster size of VFAT and NTFS is in sectors, whose size has to be asked for.
mkfs_blocksize == Refuse ** Opt(Try(Of(do_blockdev_getss), Bad) ** Refuse)
do_mkfs == Opt(mkfs_blocksize) ** Refuse ** Make
do_mkfs_b == do_mkfs

do_fstrim == Run(sync_disks) ** Refuse ** Try(sysroot_path, FailMsg) ** FinishCommand

-----------------------------------------------------------------------------
(* btrfs.c *)

OnSubvolume == Try(sysroot_path, Fail) ** FinishCommand
do_btrfs_filesystem_resize == Refuse ** OnSubvolume
do_mkfs_btrfs == Refuse ** Loop(Run(wipe_device_before_mkfs)) ** FinishCommand
do_btrfs_subvolume_snapshot == Try(sysroot_path, Fail) ** OnSubvolume
\* do_btrfs_subvolume_create too.
do_btrfs_subvolume_delete == OnSubvolume
\* A filesystem that is given by its device is mounted on a temporary directory for the command.
subvolume_list_command(is_dev) ==
  LET cmderror == Host ** Free("mount") ** Free("dir") ** Bad
      umounted == Try(Command, Error ** cmderror) ** Free("mount") ** Try(Sys, Error ** cmderror) ** Free("dir")
  IN  IF is_dev
      THEN Try(Alloc, Perror ** cmderror) ** Try(Growing("dir", Sys), Perror ** cmderror)
           ** Try(Growing("mount", Of(mount_vfs_nochroot)), cmderror)
           ** If(Command, umounted, umounted ** Error ** cmderror) ** Try(Of(split_lines), Bad) ** Ok
      ELSE Try(sysroot_path, Perror ** cmderror) ** Try(Command, Error ** cmderror) ** Try(Of(split_lines), Bad) ** Ok
\* The lines become the paths of the result.
subvolume_list_parse ==
  LET error == Free("lines") ** Free("ret") ** Free("re") ** Bad
  IN  Grow("lines") ** Try(Growing("ret", Alloc), Perror ** error) ** Try(Growing("ret", Alloc), Perror ** error)
      ** Try(Growing("re", Test), Error ** error) ** Loop(Opt(Error ** error)) ** Give("lines") ** Free("re") ** Give("ret") ** Ok
do_btrfs_subvolume_list(is_dev) == Try(Of(subvolume_list_command(is_dev)), Bad) ** subvolume_list_parse
\* do_btrfs_filesystem_sync and do_btrfs_filesystem_balance too.
do_btrfs_subvolume_set_default == OnSubvolume
test_btrfs_device_add_needs_force == Try(Command, FailMsg) ** Ok
do_btrfs_device_add == Opt(Ok) ** Opt(Try(Of(test_btrfs_device_add_needs_force), Bad)) ** OnSubvolume
do_btrfs_device_delete == Opt(Ok) ** OnSubvolume
do_btrfs_set_seeding == FinishCommand
do_btrfs_fsck == Refuse ** FinishCommand

-----------------------------------------------------------------------------
(* xfs.c, isoinfo.c *)

split_strdup == Finish(Alloc)
\* parse_uint64 too.
parse_uint32 == Refuse ** Ok
\* One field of the report, of which there are some forty.
xfs_info_field(error) ==
  Try(Growing("ret", Of(split_strdup)), error) ** Try(Of(parse_uint32), error) ** Opt(Try(Of(parse_uint32), error))
\* A string that is not in the report becomes "", and when that fails nobody is told.
parse_xfs_info ==
  LET error == Free("ret") ** Bad
  IN  Try(Growing("ret", Alloc), FailMsg) ** Loop(Opt(xfs_info_field(error))) ** Opt(Try(Growing("ret", Alloc), error))
      ** Give("ret") ** Ok
do_xfs_info(is_dev) == Try(name_of(is_dev), Fail) ** Try(Command, FailMsg) ** Try(Of(split_lines), Bad) ** parse_xfs_info
do_xfs_growfs == Try(sysroot_path, Fail) ** Refuse ** FinishCommand
do_xfs_admin == Refuse ** FinishCommand
do_xfs_repair(is_dev) == Refuse ** Try(name_of(is_dev), Fail) ** FinishCommand

parse_time_t == Refuse ** Ok
\* Only the dates and numbers are answered when they cannot be parsed; a string that cannot be copied is not.
parse_isoinfo ==
  LET error == Free("ret") ** Bad
  IN  Try(Growing("ret", Alloc), Fail)
      ** Loop(Opt(Try(Growing("ret", Alloc), error) \cup Try(Of(parse_uint32), error) \cup Try(Of(parse_time_t), error)))
      ** Opt(Try(Growing("ret", Alloc), error)) ** Give("ret") ** Ok
\* do_isoinfo_device too.
isoinfo == Try(Command, FailMsg) ** Try(Of(split_lines), Bad) ** parse_isoinfo
do_isoinfo == Try(sysroot_path, Fail) ** isoinfo
-----------------------------------------------------------------------------
(* The table *)

\* The arguments and the result of each call, from the generator's table of actions.
FilesystemProcs ==
  {OnDevice("tune2fs_l", do_tune2fs_l), OnDevice("set_e2label", do_set_e2label),
   OnDevice("get_e2label", do_get_e2label), OnDevice("set_e2uuid", do_set_e2uuid),
   OnDevice("get_e2uuid", do_get_e2uuid), OnDevice("resize2fs", Resize),
   OnDevice("resize2fs_size", do_resize2fs_size), OnDevice("resize2fs_M", do_resize2fs_M),
   OnDevice("e2fsck", do_e2fsck), OnDevice("e2fsck_f", do_e2fsck), OnDevice("mke2journal", do_mke2journal),
   OnDevice("mke2journal_L", do_mke2journal_L), OnDevice("mke2journal_U", do_mke2journal_U),
   OnDevice("mke2fs_J", do_mke2fs_J), OnDevice("mke2fs_JL", do_mke2fs_J), OnDevice("mke2fs_JU", do_mke2fs_J),
   OnDevice("tune2fs", do_tune2fs), OnPath("get_e2attrs", do_get_e2attrs), OnPath("set_e2attrs", do_set_e2attrs),
   OnPath("get_e2generation", do_get_e2generation), OnPath("set_e2generation", do_set_e2generation),
   OnDevice("mke2fs", do_mke2fs), OnPath("mklost_and_found", do_mklost_and_found),
   OnDevice("ntfs_3g_probe", do_ntfs_3g_probe), OnDevice("ntfsresize", do_ntfsresize),
   OnDevice("ntfsresize_size", do_ntfsresize), OnDevice("ntfsfix", do_ntfsfix), OnDevice("mkfs", do_mkfs),
   OnDevice("mkfs_b", do_mkfs_b), OnPath("fstrim", do_fstrim),
   OnPath("btrfs_filesystem_resize", do_btrfs_filesystem_resize), OnDevice("mkfs_btrfs", do_mkfs_btrfs),
   OnPath("btrfs_subvolume_snapshot", do_btrfs_subvolume_snapshot),
   OnPath("btrfs_subvolume_delete", do_btrfs_subvolume_delete),
   OnPath("btrfs_subvolume_create", do_btrfs_subvolume_delete),
   OnPath("btrfs_subvolume_list", do_btrfs_subvolume_list(FALSE)),
   OnDevice("btrfs_subvolume_list", do_btrfs_subvolume_list(TRUE)),
   OnPath("btrfs_subvolume_set_default", do_btrfs_subvolume_set_default),
   OnPath("btrfs_filesystem_sync", do_btrfs_subvolume_set_default),
   OnPath("btrfs_filesystem_balance", do_btrfs_subvolume_set_default), OnPath("btrfs_device_add", do_btrfs_device_add),
   OnPath("btrfs_device_delete", do_btrfs_device_delete), OnDevice("btrfs_set_seeding", do_btrfs_set_seeding),
   OnDevice("btrfs_fsck", do_btrfs_fsck), OnPath("xfs_info", do_xfs_info(FALSE)),
   OnDevice("xfs_info", do_xfs_info(TRUE)), OnPath("xfs_growfs", do_xfs_growfs),
   OnDevice("xfs_admin", do_xfs_admin), OnPath("xfs_repair", do_xfs_repair(FALSE)),
   OnDevice("xfs_repair", do_xfs_repair(TRUE)), OnDevice("isoinfo_device", isoinfo),
   OnPath("isoinfo", do_isoinfo)}

-----------------------------------------------------------------------------
(* upload.c *)

OpenFile(is_dev, r) == IF is_dev THEN Open(r) ELSE GuestOpen(r)
\* A seek that fails leaves the file open.
upload(is_dev, lseek) ==
  Try(OpenFile(is_dev, "fd"), SaveAndCancel ** Fail) ** lseek
  ** Receive(SaveAndCancel ** Error ** Close("fd") ** Bad, Error ** Close("fd") ** Bad) ** FinishClosing("fd")
do_upload(is_dev) == upload(is_dev, Skip)
\* A negative offset is refused with a stale errno, and the file is not.
do_upload_offset(is_dev) == Opt(Fail) ** upload(is_dev, Opt(Try(Sys, SaveAndCancel ** Fail)))
check_not_directory == Try(Sys, Fail) ** Refuse ** Ok
\* What is left of a file that is sent, r being the stream or descriptor it is read from.
SendAll(r) ==
  Reply ** Loop(Host ** Try(Send, Close(r) ** Bad)) ** Try(Sys, EndFile ** Close(r) ** Bad)
  ** Try(Closing(r), EndFile ** Bad) ** EndFile ** (Ok \cup Bad)
do_download(is_dev) ==
  Try(OpenFile(is_dev, "fd"), Fail) ** Try(Of(check_not_directory), Close("fd") ** Bad)
  ** (IF is_dev THEN Try(Of(do_blockdev_getsz), Close("fd") ** Bad) ELSE Try(Sys, FailClosing("fd")))
  ** SendAll("fd")
do_download_offset(is_dev) ==
  Opt(Fail) ** Try(OpenFile(is_dev, "fd"), Fail) ** Try(Of(check_not_directory), Close("fd") ** Bad)
  ** Opt(Try(Sys, FailClosing("fd"))) ** SendAll("fd")

-----------------------------------------------------------------------------
(* base64.c, tar.c, cpio.c, compress.c, ntfsclone.c: a program at the other end of a pipe *)

\* The answer is checked for only when the program has ended.
Piped(undo) ==
  Try(Open("pipe"), SaveAndCancel ** Perror ** undo ** Bad)
  ** Receive(Cancel ** Error ** undo ** Close("pipe") ** Bad, Error ** Close("pipe") ** undo ** Bad)
  ** Close("pipe") ** Opt(Error ** undo ** Bad) ** undo ** Ok
do_base64_in_uncancelled == Try(sysroot_path, Fail) ** Piped(Skip)
do_base64_in == Try(sysroot_path, SaveAndCancel ** Fail) ** Piped(Skip)
do_base64_out == Try(sysroot_path, Fail) ** Try(Sys, Fail) ** Refuse ** Try(Alloc, Fail) ** Try(Open("fp"), Fail) ** SendAll("fp")

\* A file is made in the directory and removed.
is_chown_supported ==
  Try(Of(random_name), SaveAndCancel ** Fail) ** Try(Open("fd"), SaveAndCancel ** Fail)
  ** If(Sys, Close("fd") ** Host ** Ok, Save ** Close("fd") ** Host ** (Ok \cup (Cancel ** Restore ** Fail)))
\* An unknown compression is refused, but the file is not.
tar_in(compress) ==
  Try(Of(is_chown_supported), Bad) ** compress ** Try(Open("fd"), SaveAndCancel ** Fail) ** Get("errors") ** Close("fd")
  ** Try(sysroot_path, SaveAndCancel ** Perror ** Put("errors") ** Bad) ** Piped(Put("errors"))
do_tar_in == tar_in(Refuse)
\* do_txz_in too.
do_tgz_in == tar_in(Skip)
make_exclude_from_file ==
  LET error == Put("excludes") ** Bad
  IN  Try(Open("fd"), Fail) ** Get("excludes")
      ** Loop(Opt(Error ** Close("fd") ** error) ** Try(Sys, Perror ** Close("fd") ** error))
      ** Try(Closing("fd"), Perror ** error) ** Try(Alloc, Perror ** error) ** Put("excludes") ** Ok
tar_out(options) ==
  options ** Try(sysroot_path, Fail) ** Try(Sys, Fail) ** Refuse
  ** Try(Alloc, Fail) ** Try(Open("fp"), Fail) ** SendAll("fp")
do_tar_out == tar_out(Refuse ** Opt(Try(Of(make_exclude_from_file), Bad)))
\* do_txz_out too.
do_tgz_out == tar_out(Skip)
do_cpio_out ==
  Try(sysroot_path, Fail) ** Try(Sys, Fail) ** Refuse ** Try(Alloc, Fail) ** Try(Open("fp"), Fail) ** SendAll("fp")

do_compressX_out(is_device) == Try(IF is_device THEN Alloc ELSE sysroot_path, Fail) ** Try(Open("fp"), Fail) ** SendAll("fp")
get_filter == Refuse ** Ok
do_compress_out == Try(Of(get_filter), Bad) ** do_compressX_out(FALSE)
do_compress_device_out == Try(Of(get_filter), Bad) ** do_compressX_out(TRUE)

\* When there is no file for the errors, the file that comes is not cancelled.
do_ntfsclone_in ==
  Try(Open("fd"), Fail) ** Get("errors") ** Close("fd") ** Try(Alloc, SaveAndCancel ** Perror ** Put("errors") ** Bad)
  ** Piped(Put("errors"))
do_ntfsclone_out == Try(Alloc, Fail) ** Try(Open("fp"), Fail) ** SendAll("fp")

-----------------------------------------------------------------------------
(* checksum.c, copy.c, cpmv.c, rsync.c, initrd.c *)

program_of_csum == Refuse ** Ok
\* The descriptor is closed with the program's input, and once more as the caller returns.
checksum == Try(Of(program_of_csum), Bad) ** PulseStart
            ** Try(Before(CommandOut("out"), Close("fd")), PulseCancel ** Error ** Free("out") ** Bad) ** PulseEnd ** Give("out") ** Ok
do_checksum == Try(GuestOpen("fd"), Fail) ** If(Of(checksum), Close("fd") ** Ok, Close("fd") ** Bad)
do_checksum_device == Try(Open("fd"), Fail) ** If(Of(checksum), Close("fd") ** Ok, Close("fd") ** Bad)
do_checksums_out ==
  Try(Of(program_of_csum), Bad) ** Try(sysroot_path, Fail) ** Try(Sys, Fail) ** Refuse ** Try(Alloc, Fail)
  ** Try(Open("fp"), Fail) ** SendAll("fp")

\* With a size there are progress messages of its own, without one the pulse.
copy ==
  LET both == Close("src") ** Close("dest") ** Host ** Bad
      round(cancel, short) ==
        Try(Sys, Save ** cancel ** Restore ** Perror ** both) ** short
        ** Try(Sys, Save ** cancel ** Restore ** Perror ** both)
      ends == Try(Closing("src"), Perror ** Close("dest") ** Host ** Bad) ** Try(Closing("dest"), Perror ** Host ** Bad) ** Ok
  IN  Refuse ** Try(Open("src"), Fail) ** Opt(Try(Sys, FailClosing("src"))) ** Try(Open("dest"), FailClosing("src"))
      ** Opt(Try(Sys, Perror ** both))
      ** ((PulseStart ** Loop(round(PulseCancel, Skip)) ** PulseEnd) \cup Loop(round(Skip, Opt(Error ** both)) ** Host))
      ** ends
do_copy_device_to_device == copy
\* do_copy_file_to_device too.
do_copy_device_to_file == Try(sysroot_path, Fail) ** copy
do_copy_file_to_file == Try(sysroot_path, Fail) ** Try(sysroot_path, Fail) ** copy

\* do_cp, do_cp_a, do_cp_r and do_mv too.
cpmv_cmd ==
  Try(sysroot_path, Fail) ** Try(sysroot_path, Fail) ** PulseStart ** Try(Command, PulseCancel ** FailMsg) ** PulseEnd ** Ok

rsync == FinishCommand
do_rsync == Try(sysroot_path, Fail) ** Try(sysroot_path, Fail) ** rsync
\* do_rsync_out too.
do_rsync_in == Try(sysroot_path, Fail) ** rsync

\* The status of the pipe is not an errno.
do_initrd_list ==
  Try(sysroot_path, Fail) ** Try(Open("fp"), Fail) ** Loop(Try(AddString("filenames"), Close("fp") ** Bad))
  ** Try(AddString("filenames"), Close("fp") ** Bad) ** Close("fp") ** Opt(Perror ** Free("filenames") ** Bad)
  ** Give("filenames") ** Ok
\* rmdir does not remove a directory into which cpio has extracted something.
do_initrd_cat ==
  LET rmdir == Put("tmp") \cup Host
      cleanup == Host ** Put("tmp") ** Bad
  IN  Try(Taking("tmp", Sys), Fail) ** Try(sysroot_path, Perror ** Put("tmp") ** Bad)
      ** Try(Sys, Perror ** Put("tmp") ** Bad) ** Opt(Perror ** rmdir ** Bad) ** Try(Alloc, Perror ** rmdir ** Bad)
      ** Try(Open("fd"), Perror ** rmdir ** Bad) ** Try(Sys, Perror ** Close("fd") ** cleanup) ** Opt(Error ** Close("fd") ** cleanup)
      ** Try(Growing("ret", Alloc), Perror ** Close("fd") ** cleanup) ** Try(Sys, Perror ** Free("ret") ** Close("fd") ** cleanup)
      ** Try(Closing("fd"), Perror ** Free("ret") ** cleanup) ** SetSize ** Put("tmp") ** Give("ret") ** Ok
-----------------------------------------------------------------------------
(* The table *)

\* The arguments and the result of each call, from the generator's table of actions.
TransferProcs ==
  {Proc("upload", TRUE, "in", FALSE, do_upload(FALSE)), Proc("upload", FALSE, "in", FALSE, do_upload(TRUE)),
   Proc("upload_offset", TRUE, "in", FALSE, do_upload_offset(FALSE)),
   Proc("upload_offset", FALSE, "in", FALSE, do_upload_offset(TRUE)),
   Proc("download", TRUE, "out", FALSE, do_download(FALSE)),
   Proc("download", FALSE, "out", FALSE, do_download(TRUE)),
   Proc("download_offset", TRUE, "out", FALSE, do_download_offset(FALSE)),
   Proc("download_offset", FALSE, "out", FALSE, do_download_offset(TRUE)),
   Proc("base64_in", TRUE, "in", FALSE, do_base64_in), Proc("base64_out", TRUE, "out", FALSE, do_base64_out),
   Proc("tar_in", TRUE, "in", FALSE, do_tar_in), Proc("tgz_in", TRUE, "in", FALSE, do_tgz_in),
   Proc("txz_in", TRUE, "in", FALSE, do_tgz_in), Proc("tar_out", FALSE, "out", FALSE, do_tar_out),
   Proc("tgz_out", TRUE, "out", FALSE, do_tgz_out), Proc("txz_out", TRUE, "out", FALSE, do_tgz_out),
   Proc("cpio_out", FALSE, "out", FALSE, do_cpio_out), Proc("compress_out", TRUE, "out", FALSE, do_compress_out),
   Proc("compress_device_out", FALSE, "out", FALSE, do_compress_device_out),
   Proc("ntfsclone_in", FALSE, "in", FALSE, do_ntfsclone_in),
   Proc("ntfsclone_out", FALSE, "out", FALSE, do_ntfsclone_out), OnPath("checksum", do_checksum),
   OnDevice("checksum_device", do_checksum_device), Proc("checksums_out", TRUE, "out", FALSE, do_checksums_out),
   OnDevice("copy_device_to_device", do_copy_device_to_device),
   OnPath("copy_device_to_file", do_copy_device_to_file), OnPath("copy_file_to_device", do_copy_device_to_file),
   OnPath("copy_file_to_file", do_copy_file_to_file), OnPath("cp", cpmv_cmd), OnPath("cp_a", cpmv_cmd),
   OnPath("cp_r", cpmv_cmd), OnPath("mv", cpmv_cmd), OnPath("rsync", do_rsync), OnPath("rsync_in", do_rsync_in),
   OnPath("rsync_out", do_rsync_in), OnPath("initrd_list", do_initrd_list),
   Proc("initrd_cat", TRUE, "none", TRUE, do_initrd_cat)}
-----------------------------------------------------------------------------
\* All handlers.
Handlers == FileProcs \cup BlockProcs \cup VolumeProcs \cup SystemProcs \cup TransferProcs \cup FilesystemProcs
=============================================================================
