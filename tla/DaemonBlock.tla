----------------------------- MODULE DaemonBlock -----------------------------
(***************************************************************************)
(* The handlers of guestfsd that work on block devices and partitions, and *)
(* those for LVM, software RAID, Windows dynamic disks, LUKS and sfdisk.   *)
(* Each definition is the set of paths of the C function it is named       *)
(* after, and of its neighbours with the same paths.                       *)
(***************************************************************************)
EXTENDS CallPaths

(* guestfsd.c *)

random_name == Try(Open("urandom"), Bad) ** Loop(Try(Sys, Close("urandom") ** Bad)) ** Close("urandom") ** Ok
prog_exists == Ok \cup Bad

\* add_string_nodup: on failure the string is still the caller's.
AddNodup(sb, s) == [ok |-> Grow(sb) ** Give(s), bad |-> AddString(sb).bad]

\* What an optgroup_*_available function returns, without a reply.
Available == Host ** (Ok \cup Bad)

\* A program that changes devices, which udev is to follow.
Settled == Try(Command, FailMsg) ** udev_settle ** Ok

-----------------------------------------------------------------------------
(* 9p.c, available.c, sync.c, hotplug.c *)

read_whole_file ==
  LET drop == Free("buf") ** Close("fd") ** Bad
  IN  Try(Open("fd"), Bad) ** Loop(Try(Growing("buf", Alloc), drop) ** Try(Sys, drop))
      ** Try(Closing("fd"), Free("buf") ** Bad) ** Give("buf") ** Ok
do_list_9p ==
  LET closing == Free("r") ** Close("dir") ** Bad
  IN  Try(Open("dir"), EndStrings("r"))
      ** Loop(If(Of(read_whole_file), Try(AddString("r"), Close("dir") ** Bad), Skip)) ** Try(Sys, Perror ** closing)
      ** Try(Closing("dir"), Perror ** Free("r") ** Bad) ** EndStrings("r")
\* The mount point may be "/", which needs no root.  When there is no mount tag to mount, errno is stale.
do_mount_9p == Refuse ** Try(Alloc, Fail) ** Try(Sys, Fail) ** Opt(Fail) ** Try(Alloc, Fail) ** FinishCommand

\* do_feature_available and do_available too.
available == Loop(Host ** Opt(FailMsg \cup Ok)) ** Ok
do_available_all_groups == Loop(Add("strs")) ** EndStrings("strs")
test_proc_filesystems == Try(Command, Bad) ** Ok
modprobe == Ignore(Command) ** Ok
filesystem_available == Try(Of(test_proc_filesystems), Bad) ** Opt(Run(modprobe) ** test_proc_filesystems) ** Ok
do_filesystem_available == Refuse ** Try(Of(filesystem_available), FailMsg) ** Ok

fsync_devices ==
  Try(Open("dir"), Ok) ** Loop(Opt(If(Open("fd"), Host ** Close("fd"), Skip))) ** Close("dir") ** Ok
sync_disks == Host ** Run(fsync_devices) ** Ok
do_sync == Try(Of(sync_disks), Fail) ** Ok

hotplug_error == Error
do_internal_hot_add_drive == Loop(udev_settle ** If(Sys, Ok, Opt(Fail)) ** Host) ** hotplug_error ** Bad
do_internal_hot_remove_drive_precheck == udev_settle ** Run(sync_disks) ** Try(Command, FailMsg) ** Refuse ** Ok
do_internal_hot_remove_drive == Loop(udev_settle ** Try(Sys, Fail \cup Ok) ** Host) ** hotplug_error ** Bad

-----------------------------------------------------------------------------
(* blockdev.c, blkdiscard.c, blkid.c, findfs.c *)

call_blockdev(prints) == udev_settle ** Try(Command, FailMsg) ** (IF prints THEN Refuse ELSE Skip) ** Ok
\* do_blockdev_setrw too.
do_blockdev_setro == call_blockdev(FALSE)
do_blockdev_getro == Try(Of(call_blockdev(TRUE)), Bad) ** Refuse ** Ok
\* do_blockdev_getbsz too.
do_blockdev_getss == call_blockdev(TRUE)
do_blockdev_setbsz == Ok
\* do_blockdev_getsize64 too.
do_blockdev_getsz == call_blockdev(TRUE)
\* do_blockdev_rereadpt too.
do_blockdev_flushbufs == call_blockdev(FALSE)

do_blkdiscard ==
  Try(Of(do_blockdev_getsz), Bad) ** Try(Open("fd"), Fail) ** Try(Sys, FailClosing("fd")) ** Close("fd") ** Ok
do_blkdiscardzeroes == Try(Open("fd"), Fail) ** Try(Sys, FailClosing("fd")) ** Close("fd") ** Ok

\* do_vfs_type, do_vfs_label and do_vfs_uuid too.
get_blkid_tag ==
  Try(CommandOut("out"), (Error ** Free("out") ** Bad) \cup (Free("out") ** Finish(Alloc))) ** Give("out") ** Ok
test_blkid_p_i_opt == Try(Command, FailMsg) ** Try(Command, FailMsg) ** Ok
blkid_with_p_i_opt ==
  Try(Command, FailMsg) ** Try(Of(split_lines), Bad) ** Loop(Add("strs") ** Add("strs")) ** EndStrings("strs")
\* A tag that cannot be added to the list is lost.
blkid_without_p_i_opt ==
  LET tag == Add("strs") ** Try(Growing("tag", Of(get_blkid_tag)), Free("strs") ** Bad) ** Try(AddNodup("strs", "tag"), Bad)
  IN  tag ** tag ** EndStrings("strs")
do_blkid == Opt(Try(Of(test_blkid_p_i_opt), Bad)) ** (blkid_with_p_i_opt \cup blkid_without_p_i_opt)

-----------------------------------------------------------------------------
(* dd.c, zero.c *)

\* A device as it is, or the path of a guest file seen from outside.
name_of(is_dev) == IF is_dev THEN Alloc ELSE sysroot_path
do_dd(is_dev) == Try(name_of(is_dev), Fail) ** Try(name_of(is_dev), Fail) ** FinishCommand
do_copy_size(is_dev) ==
  LET closing == Perror ** Close("dest") ** Close("src") ** Bad
      open(r) == IF is_dev THEN Open(r) ELSE Then(sysroot_path, Open(r))
  IN  Try(open("src"), Fail) ** Try(open("dest"), FailClosing("src"))
      ** Loop(Try(Sys, closing) ** Opt(Error ** Close("src") ** Close("dest") ** Bad) ** Try(Sys, closing))
      ** Try(Closing("src"), FailClosing("dest")) ** FinishClosing("dest")

\* A short read or write is no error, and sets no errno.
Short(c) == [c EXCEPT !.bad = @ \cup Host]
do_zero ==
  Try(Open("fd"), Fail)
  ** Loop(Try(Short(Sys), FailClosing("fd")) ** Opt(Try(Short(Sys), FailClosing("fd")))) ** FinishClosing("fd")
wipefs_has_force_option == Opt(Try(Command, FailMsg)) ** Ok
do_wipefs == Try(Of(wipefs_has_force_option), Bad) ** FinishCommand
do_zero_device ==
  Try(Of(do_blockdev_getsz), Bad) ** Try(Open("fd"), Fail)
  ** Loop(Try(Sys, FailClosing("fd")) ** Opt(Try(Sys, FailClosing("fd")))) ** FinishClosing("fd")
is_zero_fd == Loop(Host ** Opt(Close("fd") ** Ok)) ** Try(Sys, FailClosing("fd")) ** FinishClosing("fd")
do_is_zero == Try(GuestOpen("fd"), Fail) ** is_zero_fd
do_is_zero_device == Try(Open("fd"), Fail) ** is_zero_fd
\* The file that fills the filesystem is left behind when its size cannot be found.
do_zero_free_space ==
  LET unlink == [ok |-> Host ** Put("file"), bad |-> Host ** Put("file") ** Errno]
      remove == Ignore(unlink)
  IN  Try(Of(random_name), Fail) ** Try(Taking("file", Open("fd")), Fail) ** Try(Sys, FailClosing("fd"))
      ** Loop(Try(Sys, (Perror ** Close("fd") ** remove ** Bad)))
      ** Try(Closing("fd"), Perror ** remove ** Bad) ** Finish(unlink)
\* The failure of wipefs --help is answered, and the caller goes on.
wipe_device_before_mkfs == If(Of(wipefs_has_force_option), Ignore(Command), Skip) ** Ok

-----------------------------------------------------------------------------
(* swap.c, labels.c, uuids.c, fsck.c, zerofree.c, mountable.c *)

\* do_mkswap, do_mkswap_L and do_mkswap_U too.
mkswap == Refuse ** Run(wipe_device_before_mkfs) ** Settled
do_mkswap_file == Try(sysroot_path, Fail) ** FinishCommand
\* do_swapon_device and do_swapoff_device too.
swaponoff == Settled
\* do_swapoff_file too.
do_swapon_file == Try(sysroot_path, Fail) ** swaponoff
\* do_swapoff_label too.
do_swapon_label == Refuse ** swaponoff
\* do_swapoff_uuid too.
do_swapon_uuid == swaponoff

\* dosfslabel too.
btrfslabel == FinishCommand
e2label == Refuse ** FinishCommand
ntfslabel == FinishCommand
xfslabel == Refuse ** FinishCommand
do_set_label == Try(Of(get_blkid_tag), Bad) ** (btrfslabel \cup btrfslabel \cup e2label \cup ntfslabel \cup xfslabel \cup FailMsg)
\* xfsuuid too.
e2uuid == Refuse ** FinishCommand
do_set_uuid == Try(Of(get_blkid_tag), Bad) ** (e2uuid \cup e2uuid \cup FailMsg)
do_fsck == FinishCommand
do_zerofree == FinishCommand
do_internal_parse_mountable ==
  Try(Growing("ret", Alloc), Fail)
  ** Try(Growing("device", Alloc), Perror ** Free("ret") ** Bad)
  ** Try(Alloc, Perror ** Free("ret") ** Free("device") ** Bad) ** Give("device") ** Give("ret") ** Ok

-----------------------------------------------------------------------------
(* devsparts.c *)

\* Once func has replied and has freed the list, errno makes readdir look as if it had failed.
foreach_block_device(func) ==
  LET strs == Free("strs") ** Close("dir") ** Bad
  IN  Try(Open("dir"), Fail)
      ** Loop(If(Open("fd"), Close("fd") ** Opt(Try(func, Errno ** Perror ** strs)), Skip)) ** Try(Sys, Perror ** strs)
      ** Try(Closing("dir"), Perror ** Free("strs") ** Bad) ** EndStrings("strs")
add_device == Add("strs") ** Ok
do_list_devices == foreach_block_device(Of(add_device))
add_partitions ==
  Try(Open("parts"), Perror ** Dangle("strs") ** Bad)
  ** Loop(Opt(Try(AddString("strs"), Close("parts") ** Bad))) ** Try(Sys, Perror ** Dangle("strs") ** Close("parts") ** Bad)
  ** Try(Closing("parts"), Perror ** Dangle("strs") ** Bad) ** Ok
do_list_partitions == foreach_block_device(Of(add_partitions))
do_part_to_dev == Refuse ** Finish(Alloc)
do_part_to_partnum == Refuse ** Refuse ** Ok
do_is_whole_device == Refuse ** Try(Alloc, Fail) ** If(Sys, Ok, Ok \cup Fail)
do_device_index == Try(Of(do_list_devices), Bad) ** (FailMsg \cup Ok)
do_nr_devices == Try(Of(do_list_devices), Bad) ** Ok
\* errno is cleared once, before the loop: what realpath leaves in it looks like a failure of readdir.
do_list_disk_labels ==
  LET error == Close("dir") ** Free("strs") ** Bad
      added(c) == Try(c, Close("dir") ** Free("rawdev") ** Bad)
      label == Try(Alloc, Perror ** error) ** Try(Growing("rawdev", Sys), Perror ** error)
               ** added(AddString("strs")) ** added(AddNodup("strs", "rawdev"))
  IN  Try(Open("dir"), Fail)
      ** Loop(label) ** Try(Short(Sys), Perror ** error) ** Try(Closing("dir"), Perror ** Free("strs") ** Bad) ** EndStrings("strs")

-----------------------------------------------------------------------------
(* parted.c *)

\* A change of the partition table.
Repartition(c) == Refuse ** udev_settle ** Try(c, FailMsg) ** udev_settle
check_parttype == Refuse
do_part_init == check_parttype ** Repartition(Command) ** Ok
do_part_add == Refuse ** Repartition(Command) ** Ok
do_part_del == Repartition(Command) ** Ok
do_part_disk == check_parttype ** Repartition(Command) ** Ok
\* do_part_set_name too.
do_part_set_bootable == Repartition(Command) ** Ok
do_part_get_mbr_id == Repartition(Command) ** Refuse ** Ok
do_part_set_mbr_id == Repartition(Command) ** Ok
do_part_set_gpt_type == Refuse ** Try(Alloc, Fail) ** FinishCommand

get_table_field == Refuse ** Finish(Alloc)
test_parted_m_opt == Opt(Try(Command, FailMsg)) ** Ok
print_partition_table == Try(CommandOut("out"), Error ** Free("out") ** Bad) ** Give("out") ** Ok
\* What all readers of the table begin with.
PrintTable == Try(Of(test_parted_m_opt), Bad) ** Try(Of(print_partition_table), Bad)
do_part_get_parttype ==
  PrintTable ** ((Try(Of(split_lines), Bad) ** Refuse ** Try(Of(get_table_field), Bad) ** Refuse ** Ok)
                 \cup (Refuse ** Try(Alloc, Fail) ** Refuse ** Ok))
do_part_list ==
  PrintTable ** Try(Of(split_lines), Bad) ** Refuse ** Try(Growing("r", Alloc), Fail)
  ** Try(Growing("val", Alloc), Perror ** Free("r") ** Bad)
  ** Loop(Opt(Error ** Free("val") ** Free("r") ** Bad)) ** Give("val") ** Give("r") ** Ok
do_part_get_bootable ==
  Refuse ** PrintTable ** Try(Of(split_lines), Bad) ** Refuse ** (Ok \cup Try(Of(get_table_field), Bad) ** Ok)

\* No lines: split_lines has replied already.
sgdisk_info_extract_field(extract) ==
  Refuse ** Try(Alloc, Fail) ** Try(Command, FailMsg) ** Try(Of(split_lines), FailMsg)
  ** ((Try(Of(extract), Bad) ** Ok) \cup FailMsg)
extract_uuid == Finish(Alloc)
do_part_get_gpt_type == sgdisk_info_extract_field(extract_uuid)
\* No name: get_table_field has replied already.
do_part_get_name ==
  Try(Of(do_part_get_parttype), Bad) ** Refuse ** PrintTable ** Refuse ** Try(Of(split_lines), Bad) ** Refuse
  ** Try(Of(get_table_field), FailMsg) ** Ok
-----------------------------------------------------------------------------
(* The table *)

\* The arguments and the result of each call, from the generator's table of actions.
BlockProcs ==
  {OnDevice("list_9p", do_list_9p), OnDevice("mount_9p", do_mount_9p),
   OnDevice("feature_available", available), OnDevice("available", available),
   OnDevice("available_all_groups", do_available_all_groups),
   OnDevice("filesystem_available", do_filesystem_available), OnDevice("sync", do_sync),
   OnDevice("internal_hot_add_drive", do_internal_hot_add_drive),
   OnDevice("internal_hot_remove_drive_precheck", do_internal_hot_remove_drive_precheck),
   OnDevice("internal_hot_remove_drive", do_internal_hot_remove_drive),
   OnDevice("blockdev_setro", do_blockdev_setro), OnDevice("blockdev_setrw", do_blockdev_setro),
   OnDevice("blockdev_getro", do_blockdev_getro), OnDevice("blockdev_getss", do_blockdev_getss),
   OnDevice("blockdev_getbsz", do_blockdev_getss), OnDevice("blockdev_setbsz", do_blockdev_setbsz),
   OnDevice("blockdev_getsz", do_blockdev_getsz), OnDevice("blockdev_getsize64", do_blockdev_getsz),
   OnDevice("blockdev_flushbufs", do_blockdev_flushbufs), OnDevice("blockdev_rereadpt", do_blockdev_flushbufs),
   OnDevice("blkdiscard", do_blkdiscard), OnDevice("blkdiscardzeroes", do_blkdiscardzeroes),
   OnDevice("vfs_type", get_blkid_tag), OnDevice("vfs_label", get_blkid_tag), OnDevice("vfs_uuid", get_blkid_tag),
   OnDevice("blkid", do_blkid), OnPath("dd", do_dd(FALSE)), OnDevice("dd", do_dd(TRUE)),
   OnPath("copy_size", do_copy_size(FALSE)), OnDevice("copy_size", do_copy_size(TRUE)), OnDevice("zero", do_zero),
   OnDevice("wipefs", do_wipefs), OnDevice("zero_device", do_zero_device), OnPath("is_zero", do_is_zero),
   OnDevice("is_zero_device", do_is_zero_device), OnPath("zero_free_space", do_zero_free_space),
   OnDevice("mkswap", mkswap), OnDevice("mkswap_L", mkswap), OnDevice("mkswap_U", mkswap),
   OnPath("mkswap_file", do_mkswap_file), OnDevice("swapon_device", swaponoff),
   OnDevice("swapoff_device", swaponoff), OnPath("swapon_file", do_swapon_file),
   OnPath("swapoff_file", do_swapon_file), OnDevice("swapon_label", do_swapon_label),
   OnDevice("swapoff_label", do_swapon_label), OnDevice("swapon_uuid", do_swapon_uuid),
   OnDevice("swapoff_uuid", do_swapon_uuid), OnDevice("set_label", do_set_label),
   OnDevice("set_uuid", do_set_uuid), OnDevice("fsck", do_fsck), OnDevice("zerofree", do_zerofree),
   OnDevice("internal_parse_mountable", do_internal_parse_mountable), OnDevice("list_devices", do_list_devices),
   OnDevice("list_partitions", do_list_partitions), OnDevice("part_to_dev", do_part_to_dev),
   OnDevice("part_to_partnum", do_part_to_partnum), OnDevice("is_whole_device", do_is_whole_device),
   OnDevice("device_index", do_device_index), OnDevice("nr_devices", do_nr_devices),
   OnDevice("list_disk_labels", do_list_disk_labels), OnDevice("part_init", do_part_init),
   OnDevice("part_add", do_part_add), OnDevice("part_del", do_part_del), OnDevice("part_disk", do_part_disk),
   OnDevice("part_set_bootable", do_part_set_bootable), OnDevice("part_set_name", do_part_set_bootable),
   OnDevice("part_get_mbr_id", do_part_get_mbr_id), OnDevice("part_set_mbr_id", do_part_set_mbr_id),
   OnDevice("part_set_gpt_type", do_part_set_gpt_type), OnDevice("part_get_parttype", do_part_get_parttype),
   OnDevice("part_list", do_part_list), OnDevice("part_get_bootable", do_part_get_bootable),
   OnDevice("part_get_gpt_type", do_part_get_gpt_type), OnDevice("part_get_name", do_part_get_name)}

-----------------------------------------------------------------------------
(* lvm.c *)

\* A program whose output is the answer.
Output == Try(CommandOut("out"), Error ** Free("out") ** Bad)

convert_lvm_output == Loop(Try(AddString("ret"), Free("out") ** Bad)) ** Free("out") ** EndStrings("ret")
\* do_vgs and do_lvs too.
do_pvs == Output ** convert_lvm_output
do_pvcreate == Settled
do_vgcreate == Try(Alloc, Fail) ** Settled
do_lvcreate == Settled
do_lvcreate_free == Refuse ** Settled
ignore_same_size_error == Ok \cup Bad
do_lvresize == Try(Command, Try(Of(ignore_same_size_error), FailMsg)) ** Ok
do_lvresize_free == Refuse ** do_lvresize
\* Logical volumes, volume groups and physical volumes, in this order.
do_lvm_remove_all ==
  LET removeLV == Ignore(Command) ** udev_settle ** Try(Command, FailMsg)
  IN  Try(Of(do_pvs), Bad) ** Opt(removeLV) ** Try(Of(do_pvs), Bad) ** Opt(removeLV)
      ** Try(Of(do_pvs), Bad) ** Opt(Try(Command, FailMsg)) ** udev_settle ** Ok
\* do_vgremove and do_pvremove too.
do_lvremove == Settled
\* do_pvresize_size too.
do_pvresize == FinishCommand
\* do_vg_activate_all too.
do_vg_activate == Try(Alloc, Fail) ** Settled
\* do_vgrename too.
do_lvrename == Settled
\* do_pvuuid, do_vguuid and do_lvuuid too.
get_lvm_field == Output ** Give("out") ** Ok
\* do_vgpvuuids and do_vglvuuids too.
get_lvm_fields == Try(Command, FailMsg) ** split_lines
do_vgscan == FinishCommand
\* do_is_lv too.
lv_canonical == Try(Sys, Fail) ** Try(Of(do_pvs), Bad) ** Loop(Try(Sys, Fail) ** Opt(Finish(Alloc))) ** Ok
do_lvm_canonical_lv_name == Try(Of(lv_canonical), Bad) ** Refuse ** Ok
do_list_dm_devices ==
  LET drop == Free("dms") ** Close("dir") ** Bad
  IN  Try(Open("dir"), Fail)
      ** Opt(Try(Of(lv_canonical), drop) ** Opt(Try(AddString("dms"), Close("dir") ** Bad)))
      ** Try(Sys, Perror ** drop) ** Try(Closing("dir"), Perror ** Free("dms") ** Bad) ** EndStrings("dms")
\* The temporary file is removed on success only.
do_vgmeta ==
  LET drop == Free("buf") ** Close("fd") ** Bad
  IN  Try(Taking("tmp", Sys), Fail) ** Host ** Try(Command, FailMsg) ** Try(Open("fd"), FailMsg)
      ** Loop(Opt(Error ** drop) ** Try(Growing("buf", Alloc), Perror ** drop) ** Try(Sys, Perror ** drop))
      ** Try(Closing("fd"), Perror ** Free("buf") ** Bad) ** Put("tmp") ** SetSize ** Give("buf") ** Ok
\* do_pvchange_uuid_all, do_vgchange_uuid and do_vgchange_uuid_all too.
do_pvchange_uuid == Settled

\* findfs.c
\* do_findfs_uuid and do_findfs_label too.
findfs == Host ** Output ** Opt(Try(Of(lv_canonical), Free("out") ** Bad)) ** Give("out") ** Ok

-----------------------------------------------------------------------------
(* lvm-filter.c *)

\* Every failure of augeas is answered with its message.
set_filter == Refuse ** Loop(Host ** Refuse) ** Host ** Refuse ** Ok
\* deactivate and reactivate too.
vgchange == FinishCommand
rescan == Host ** FinishCommand
make_filter_strings == Loop(Add("ret") ** Opt(Add("ret"))) ** Add("ret") ** EndStrings("ret")
do_lvm_set_filter ==
  Try(Of(make_filter_strings), Bad) ** Try(Of(vgchange), Bad) ** Try(Of(set_filter), Bad) ** Try(Of(rescan), Bad) ** vgchange
do_lvm_clear_filter == Try(Of(vgchange), Bad) ** Try(Of(set_filter), Bad) ** Try(Of(rescan), Bad) ** vgchange

-----------------------------------------------------------------------------
(* md.c *)

do_md_create == Refuse ** Settled
is_raid_device == If(Open("fd"), Host ** Close("fd"), Skip) ** Ok
\* A name that cannot be added to the list is lost.
do_list_md_devices ==
  LET error == Put("glob") ** Free("ret") ** Bad
  IN  Host ** Get("glob") ** Opt(Error ** error)
      ** Loop(Try(Growing("dev", Alloc), Perror ** error) ** Run(is_raid_device)
              ** (Free("dev") \cup Try(AddNodup("ret", "dev"), error)))
      ** Try(AddString("ret"), error) ** Put("glob") ** Give("ret") ** Ok
do_md_detail ==
  Try(Command, FailMsg) ** Try(Of(split_lines), Bad) ** Loop(Add("ret") ** Add("ret")) ** EndStrings("ret")
do_md_stop == FinishCommand
parse_md_stat_line ==
  LET error == Free("fields") ** Free("val") ** Free("ret") ** Bad
  IN  Try(Growing("ret", Alloc), Fail) ** Try(Growing("val", Alloc), Perror ** Free("ret") ** Bad)
      ** Loop(Opt(Error ** error) ** Try(Growing("fields", Alloc), Perror ** error) ** Opt(Error ** error))
      ** Give("fields") ** Give("val") ** Give("ret") ** Ok
do_md_stat ==
  Try(Open("fp"), Fail) ** Opt(Try(Of(parse_md_stat_line), Close("fp") ** Bad)) ** Try(Closing("fp"), Fail) ** Refuse ** Ok

-----------------------------------------------------------------------------
(* ldm.c *)

get_devices ==
  LET error == Put("glob") ** Free("ret") ** Bad
  IN  Host ** Get("glob") ** Opt(Error ** error) ** Loop(Try(AddString("ret"), error)) ** Try(AddString("ret"), error)
      ** Put("glob") ** Give("ret") ** Ok
\* do_list_ldm_partitions too.
do_list_ldm_volumes == If(Sys, get_devices, empty_list \cup Fail)
\* do_ldmtool_remove_all too.
do_ldmtool_create_all == FinishCommand
parse_json == Refuse ** Ok
\* The third outcome is TYPE_ERROR, with which the strings collected so far are lost.
json_value_to_string_list == Loop(Opt(Ev("return", "type")) ** Add("strs")) ** Opt(Ev("return", "type")) ** EndStrings("strs")
parse_json_get_string_list ==
  LET free == Put("tree")
  IN  Try(Taking("tree", Of(parse_json)), Bad)
      ** ((Returns(json_value_to_string_list, "ok") ** free ** Ok)
          \cup (Returns(json_value_to_string_list, "bad") ** free ** Bad)
          \cup (Returns(json_value_to_string_list, "type") ** free ** FailMsg))
parse_json_get_object_string ==
  Try(Taking("tree", Of(parse_json)), Bad)
  ** ((If(Alloc, Put("tree") ** Ok, Perror ** Put("tree") ** Bad)) \cup (Error ** Put("tree") ** Bad))
parse_json_get_object_string_list ==
  LET bad_type == Error ** Put("tree") ** Bad
  IN  Try(Taking("tree", Of(parse_json)), Bad)
      ** (bad_type \cup (Returns(json_value_to_string_list, "ok") ** Put("tree") ** Ok)
          \cup (Returns(json_value_to_string_list, "bad") ** Put("tree") ** Bad)
          \cup (Returns(json_value_to_string_list, "type") ** bad_type))
\* The strings of the argument list, most of them the caller's, are freed with it.
\* do_ldmtool_scan too.
do_ldmtool_scan_devices ==
  Try(Alloc, Fail) ** Try(Command, Error ** Put("args") ** Bad)
  ** Try(Of(parse_json_get_string_list), Put("args") ** Bad) ** Put("args") ** Ok
do_ldmtool_diskgroup_name == Try(Command, FailMsg) ** parse_json_get_object_string
\* err is freed here, and again as the function returns.
do_ldmtool_diskgroup_volumes ==
  Try(CommandOut("err"), Error ** Free("err") ** Bad) ** Dangle("err")
  ** Try(Of(parse_json_get_object_string_list), Free("err") ** Bad) ** Free("err") ** Ok
do_ldmtool_diskgroup_disks == Try(Command, FailMsg) ** parse_json_get_object_string_list
\* do_ldmtool_volume_hint too.
do_ldmtool_volume_type == Try(Command, FailMsg) ** parse_json_get_object_string
do_ldmtool_volume_partitions == Try(Command, FailMsg) ** parse_json_get_object_string_list

-----------------------------------------------------------------------------
(* luks.c, sfdisk.c *)

\* The key is a file until remove_temp.
remove_temp(key) == Put(key)
write_key_to_temp(key) ==
  LET error == remove_temp(key) ** Bad
  IN  Try(Alloc, Fail) ** Try(Open("fd"), Fail) ** Get(key) ** Try(Sys, Perror ** Close("fd") ** error)
      ** Try(Closing("fd"), Perror ** error) ** Ok
\* do_luks_open and do_luks_open_ro too.
luks_open ==
  Host ** Refuse ** Try(Of(write_key_to_temp("key")), Bad)
  ** If(Command, remove_temp("key"), remove_temp("key") ** FailMsg) ** udev_settle ** Ok
do_luks_close == Refuse ** Settled
\* do_luks_format and do_luks_format_cipher too.
luks_format ==
  Try(Of(write_key_to_temp("key")), Bad)
  ** If(Command, remove_temp("key"), remove_temp("key") ** FailMsg) ** udev_settle ** Ok
do_luks_add_key ==
  LET remove == remove_temp("key") ** remove_temp("newkey")
  IN  Try(Of(write_key_to_temp("key")), Bad) ** Try(Of(write_key_to_temp("newkey")), remove_temp("key") ** Bad)
      ** If(Command, remove ** Ok, remove ** FailMsg)
do_luks_kill_slot ==
  Try(Of(write_key_to_temp("key")), Bad) ** If(Command, remove_temp("key") ** Ok, remove_temp("key") ** FailMsg)

\* do_sfdisk, do_sfdisk_N and do_sfdiskM too.
sfdisk ==
  Refuse ** Refuse ** Try(Open("fp"), Fail) ** Loop(Try(Sys, FailClosing("fp"))) ** Close("fp") ** Refuse
  ** Ignore(Command) ** udev_settle ** Ok
\* do_sfdisk_l, do_sfdisk_kernel_geometry and do_sfdisk_disk_geometry too.
sfdisk_flag == Output ** udev_settle ** Give("out") ** Ok
-----------------------------------------------------------------------------
(* The table *)

\* The arguments and the result of each call, from the generator's table of actions.
VolumeProcs ==
  {OnDevice("pvs", do_pvs), OnDevice("vgs", do_pvs), OnDevice("lvs", do_pvs), OnDevice("pvcreate", do_pvcreate),
   OnDevice("vgcreate", do_vgcreate), OnDevice("lvcreate", do_lvcreate),
   OnDevice("lvcreate_free", do_lvcreate_free), OnDevice("lvresize", do_lvresize),
   OnDevice("lvresize_free", do_lvresize_free), OnDevice("lvm_remove_all", do_lvm_remove_all),
   OnDevice("lvremove", do_lvremove), OnDevice("vgremove", do_lvremove), OnDevice("pvremove", do_lvremove),
   OnDevice("pvresize", do_pvresize), OnDevice("pvresize_size", do_pvresize),
   OnDevice("vg_activate", do_vg_activate), OnDevice("vg_activate_all", do_vg_activate),
   OnDevice("lvrename", do_lvrename), OnDevice("vgrename", do_lvrename), OnDevice("pvuuid", get_lvm_field),
   OnDevice("vguuid", get_lvm_field), OnDevice("lvuuid", get_lvm_field), OnDevice("vgpvuuids", get_lvm_fields),
   OnDevice("vglvuuids", get_lvm_fields), OnDevice("vgscan", do_vgscan), OnDevice("is_lv", lv_canonical),
   OnDevice("lvm_canonical_lv_name", do_lvm_canonical_lv_name), OnDevice("list_dm_devices", do_list_dm_devices),
   Proc("vgmeta", FALSE, "none", TRUE, do_vgmeta), OnDevice("pvchange_uuid", do_pvchange_uuid),
   OnDevice("pvchange_uuid_all", do_pvchange_uuid), OnDevice("vgchange_uuid", do_pvchange_uuid),
   OnDevice("vgchange_uuid_all", do_pvchange_uuid), OnDevice("findfs_uuid", findfs),
   OnDevice("findfs_label", findfs), OnDevice("lvm_set_filter", do_lvm_set_filter),
   OnDevice("lvm_clear_filter", do_lvm_clear_filter), OnDevice("md_create", do_md_create),
   OnDevice("list_md_devices", do_list_md_devices), OnDevice("md_detail", do_md_detail),
   OnDevice("md_stop", do_md_stop), OnDevice("md_stat", do_md_stat),
   OnDevice("list_ldm_volumes", do_list_ldm_volumes), OnDevice("list_ldm_partitions", do_list_ldm_volumes),
   OnDevice("ldmtool_create_all", do_ldmtool_create_all), OnDevice("ldmtool_remove_all", do_ldmtool_create_all),
   OnDevice("ldmtool_scan_devices", do_ldmtool_scan_devices), OnDevice("ldmtool_scan", do_ldmtool_scan_devices),
   OnDevice("ldmtool_diskgroup_name", do_ldmtool_diskgroup_name),
   OnDevice("ldmtool_diskgroup_volumes", do_ldmtool_diskgroup_volumes),
   OnDevice("ldmtool_diskgroup_disks", do_ldmtool_diskgroup_disks),
   OnDevice("ldmtool_volume_type", do_ldmtool_volume_type), OnDevice("ldmtool_volume_hint", do_ldmtool_volume_type),
   OnDevice("ldmtool_volume_partitions", do_ldmtool_volume_partitions), OnDevice("luks_open", luks_open),
   OnDevice("luks_open_ro", luks_open), OnDevice("luks_close", do_luks_close),
   OnDevice("luks_format", luks_format), OnDevice("luks_format_cipher", luks_format),
   OnDevice("luks_add_key", do_luks_add_key), OnDevice("luks_kill_slot", do_luks_kill_slot),
   OnDevice("sfdisk", sfdisk), OnDevice("sfdisk_N", sfdisk), OnDevice("sfdiskM", sfdisk),
   OnDevice("sfdisk_l", sfdisk_flag), OnDevice("sfdisk_kernel_geometry", sfdisk_flag),
   OnDevice("sfdisk_disk_geometry", sfdisk_flag)}
=============================================================================
