---------------------------- MODULE LibraryInspect ----------------------------
(***************************************************************************)
(* Inspection of a guest: src/inspect*.c, osinfo.c, filearch.c, dbdump.c.  *)
(* Each definition is the set of paths of the C function it is named       *)
(* after, without the prefix guestfs__ or guestfs___, and of its           *)
(* neighbours with the same paths.                                         *)
(***************************************************************************)
EXTENDS CallPaths

(* inspect.c *)

\* What is found is kept in the handle, and dropped when inspection fails.
inspect_os ==
  LET error == Free("fses") ** Bad
  IN  Must(Call) ** Must(Call) ** Loop(Grow("fses") ** Try(Call, error)) ** Try(Call, error) ** Give("fses") ** Ok
inspect_get_roots == Ok
search_for_root == Refuse ** Refuse ** Ok

\* inspect_get_type, inspect_get_arch and inspect_get_distro too.
Getter == Must(Of(search_for_root)) ** Ok
\* A version that could not be read was stored as -1, and is returned as it is.
\* inspect_get_minor_version too.
inspect_get_major_version == Must(Of(search_for_root)) ** Opt(Bad) ** Ok
\* inspect_get_product_variant too.
inspect_get_product_name == Getter
\* inspect_is_live, inspect_is_netinst and inspect_is_multipart too.
inspect_get_format == Getter
\* inspect_get_package_format, inspect_get_package_management and inspect_get_hostname too.
inspect_get_drive_mappings == Getter
\* inspect_get_windows_current_control_set too.
inspect_get_windows_systemroot == Must(Of(search_for_root)) ** Refuse ** Ok
\* inspect_get_filesystems too.
inspect_get_mountpoints == Must(Of(search_for_root)) ** MustSys(Alloc) ** Ok

\* A file is downloaded once.  What a failed download left behind would be taken for it the next time.
download_to_tmp_keeps ==
  LET error == Free("r") ** Bad
      Fetch ==
        Try(Call, error) ** Opt(Error ** error) ** Try(Open("fd"), Perror ** error) ** Get("file")
        ** Try(Call, Close("fd") ** error) ** Try(Closing("fd"), Perror ** Host ** Put("file") ** error)
        ** Give("file")
  IN  MustSys(Growing("r", Alloc)) ** Host ** Opt(Fetch) ** Give("r") ** Ok
download_to_tmp ==
  LET error == Free("r") ** Bad
      Fetch ==
        Try(Call, error) ** Opt(Error ** error) ** Try(Open("fd"), Perror ** error) ** Get("file")
        ** Try(Call, Put("file") ** Close("fd") ** error) ** Try(Closing("fd"), Perror ** Host ** Put("file") ** error)
        ** Give("file")
  IN  MustSys(Growing("r", Alloc)) ** Host ** Opt(Fetch) ** Give("r") ** Ok

-----------------------------------------------------------------------------
(* inspect-fs.c *)

extend_fses == MustSys(Alloc) ** Ok
case_sensitive_path_silently == If(Quietly(Call), Ok, Bad)
\* is_dir_nocase too.
is_file_nocase == Try(Of(case_sensitive_path_silently), Ok) ** Checks ** Ok

\* A swap device; an install ISO, for which the entry is taken back when it is none; a filesystem that can be
\* mounted, with two variants of ufs to try.
check_for_filesystem_on_shown ==
  LET ufs == [ok |-> Call.ok \cup (Call.bad ** Call.ok), bad |-> Call.bad ** Call.bad]
  IN  Ignore(Call) ** Opt(Must(Of(extend_fses)) ** Ok) ** Must(Call) ** Opt(Must(Call))
      ** Opt(Must(Of(extend_fses)) ** Must(Call) ** Opt(Ok)) ** (Try(Quietly(Call), Ok) \cup Try(Quietly(ufs), Ok))
      ** If(Call, Must(Call) ** Ok, Ignore(Call) ** Bad)
check_for_filesystem_on ==
  LET ufs == [ok |-> Call.ok \cup (Call.bad ** Call.ok), bad |-> Call.bad ** Call.bad]
  IN  Ignore(Quietly(Call)) ** Opt(Must(Of(extend_fses)) ** Ok) ** Must(Call) ** Opt(Must(Call))
      ** Opt(Must(Of(extend_fses)) ** Must(Call) ** Opt(Ok)) ** (Try(Quietly(Call), Ok) \cup Try(Quietly(ufs), Ok))
      ** If(Call, Must(Call) ** Ok, Ignore(Call) ** Bad)
\* Files are looked for; a shadow of a root is left out, and a root is examined by one of the functions below.
\* Tests for files, and the function for the kind of root that they tell of.
check_filesystem_kind == Checks ** (Ok \cup Must(Call) \cup Skip)
check_filesystem == Must(Of(extend_fses)) ** Opt(Ignore(Quietly(Call))) ** check_filesystem_kind ** Ok

\* A number of 32 bits is returned as an int: the largest is -1.
\* parse_unsigned_int_ignore_trailing too.
parse_unsigned_int == Refuse ** Opt(Bad) ** Ok
Number == [ok |-> Skip, bad |-> Error]
\* Two numbers of a version, and one.
Versions ==
  Opt(Grow("major") ** Grow("minor") ** If(Number, Free("major"), Free("major") ** Free("minor") ** Bad)
      ** If(Number, Free("minor"), Free("minor") ** Bad))
Major == Grow("major") ** If(Number, Free("major"), Free("major") ** Bad)
parse_major_minor == Versions ** Ok

Small == Must(Call) ** Refuse
\* first_egrep_of_file too.
first_line_of_file == Small ** Must(Growing("lines", Call)) ** Free("lines") ** Ok

-----------------------------------------------------------------------------
(* inspect-fs-unix.c *)

parse_release_file == Must(Call) ** Refuse ** Ok
parse_lsb_release == Small ** Must(Call) ** Loop(Versions) ** Ok
\* A release file without the lines that are looked for fails without an error.
parse_suse_release ==
  LET version == Opt(Bad) ** Opt(Bad) ** Major
      both == Grow("major") ** Grow("minor") ** Opt(Error ** Free("major") ** Free("minor") ** Bad) ** Free("major") ** Free("minor")
  IN  Small ** Must(Call) ** Opt(Bad) ** ((version ** version) \cup (Opt(Bad) ** Opt(both)) \cup Skip) ** Ok

\* One release file or another is there.
\* The release file of a Red Hat-like distribution, and of another.
check_linux_root_redhat == Must(Call) ** (Versions \cup Major \cup Skip)
check_linux_root_other == (Must(Call) ** Must(Call)) \cup Must(Call) \cup Skip
check_linux_root ==
  Checks ** Opt(Must(Call)) ** (check_linux_root_redhat \cup check_linux_root_other \cup Skip)
  ** Checks ** Must(Call) ** Must(Call) ** Ok
check_freebsd_root == Checks ** Opt(Must(Call) ** Must(Call)) ** Checks ** Must(Call) ** Must(Call) ** Ok
\* The caller has found the release file: only a failure of the call leads to the other branch.
check_netbsd_root == Must(Call) ** Must(Call) ** Versions ** Checks ** Must(Call) ** Must(Call) ** Ok
check_hurd_root == Checks ** Opt(Must(Call) ** Must(Call)) ** Checks ** Opt(Must(Call)) ** Must(Call) ** Ok
check_minix_root == Must(Call) ** Must(Call) ** Versions ** Checks ** Must(Call) ** Ok
check_architecture == Checks ** Loop(Ignore(Quietly(Call))) ** Ok

\* A failure to find out whether the file is there counts as being there.
check_hostname_unix == Checks ** Opt(Must(Call)) ** Opt(Must(Call)) ** Opt(Must(Call)) ** Ok
check_hostname_redhat == Ignore(Quietly(Call)) ** Ok
check_hostname_freebsd == Small ** Must(Call) ** Ok

add_fstab_entry == MustSys(Alloc) ** Ok
map_app_md_devices ==
  LET error == Free("app_map") ** Bad
  IN  Grow("app_map") ** Try(Call, error)
      ** Loop(Try(Call, error) ** Opt(Grow("entry") ** (Free("entry") \cup Give("entry")))) ** Ok
\* On failure the map is freed and the caller, which has the pointer to it, frees it again.
map_md_devices ==
  LET leave == Free("app_map")
      error == leave ** Bad
      array ==
        Try(Growing("dev", Call), Dangle("map") ** error)
        ** If(Call, Free("dev") \cup (Grow("entry") ** Give("dev") ** (Give("entry") \cup Free("entry"))), Free("dev"))
  IN  Try(Of(map_app_md_devices), error) ** Opt(leave ** Ok) ** Try(Call, error) ** Opt(leave ** Ok)
      ** Grow("map") ** Loop(array) ** leave ** Ok
check_fstab ==
  LET error == Free("map") ** Bad
      Next(c) == Try(c, error)
      btrfs == Next(Call) ** Opt(Next(Call) ** Opt(Next(Call)))
      entry == Next(Call) ** Opt(Next(Call) ** Opt(Checks ** Opt(Next(Call) ** Opt(btrfs) ** Next(Of(add_fstab_entry)))))
  IN  Next(Of(map_md_devices)) ** Next(Call) ** Opt(entry) ** Free("map") ** Ok

is_partition == Push ** Try(Call, Pop ** Ok) ** Try(Call, Pop ** Ok) ** Pop ** Ok
Partition == Grow("device") ** Run(is_partition) ** ((Free("device") ** Ok) \cup Give("device"))
\* resolve_fstab_device_cciss too.
resolve_fstab_device_xdev == Must(Call) ** Opt(Partition) ** Ok
resolve_fstab_device_diskbyid == Must(Call) ** Opt(Ok) ** Partition ** Ok
\* The name is one of several kinds; what is not understood is returned as it is.
resolve_fstab_device ==
  LET named == Grow("parts") ** If(Call, Free("parts"), Free("parts") ** Bad)
      numbered == Grow("parts") ** Checks ** Free("parts")
  IN  Checks ** (named \cup numbered \cup Skip) ** Ok

inspect_with_augeas ==
  LET close == Ignore(Call) ** Put("augeas")
  IN  Checks ** Loop(Small) ** Must(Taking("augeas", Call)) ** Try(Call, close ** Bad) ** Try(Call, close ** Bad)
      ** If(Call, close ** Ok, close ** Bad)
-----------------------------------------------------------------------------
(* inspect-fs-windows.c *)

is_systemroot == Checks ** Ok
get_windows_systemroot ==
  LET candidate ==
        If(Of(case_sensitive_path_silently),
           Grow("systemroot") ** Run(is_systemroot) ** ((Give("systemroot") ** Ok) \cup Free("systemroot")), Skip)
  IN  Loop(candidate) ** Opt(Checks ** Opt(Try(Call, Ok) ** Opt(candidate))) ** Ok
check_windows_root == Must(Call) ** Must(Call) ** Must(Call) ** Ok
check_windows_arch == Must(Call) ** Checks ** Ok

HiveClose == Ignore(Call) ** Put("hive")
HiveNode(out) == Try(Call, out)
\* The values of a node are used whether they could be read or not.
check_windows_software_registry ==
  LET out == HiveClose ** Bad
      version == Grow("major") ** Grow("minor") ** Try(Number, Free("major") ** Free("minor") ** out)
                 ** Free("major") ** Try(Number, Free("minor") ** out) ** Free("minor")
  IN  Must(Call) ** Must(Call) ** Opt(Ok) ** Must(Taking("hive", Call)) ** HiveNode(out) ** Opt(Perror ** out)
      ** Ignore(Yields("values", Call)) ** Use("values")
      ** Opt(Try(Call, out) ** Opt(Try(Call, out) ** Opt(version))) ** HiveClose ** Ok
\* A hive that could not be opened is closed.
check_windows_system_registry ==
  LET out == HiveClose ** Bad
      mappings == Ignore(Yields("values", Call)) ** Use("values") ** Opt(Try(Call, out)) ** Opt(Try(Call, out) ** Checks)
      hostname == Try(Call, out) ** Opt(Try(Call, out) ** Opt(Try(Call, out)))
  IN  Must(Call) ** Must(Call) ** Opt(Ok) ** Try(Taking("hive", Call), out) ** Checks
      ** HiveNode(out) ** Opt(Error ** out) ** HiveNode(out) ** Opt(Error ** out)
      ** Ignore(Yields("buf", Call)) ** Opt(Error ** out) ** Use("buf")
      ** HiveNode(out) ** Opt(mappings) ** HiveNode(out) ** Opt(Perror ** out) ** hostname ** HiveClose ** Ok
map_registry_disk_blob == Try(Call, Ok) ** Loop(Checks) ** Opt(Ok) ** Try(Call, Ok) ** Ok

\* The caller reports errno: closing the converter must not spoil it.
utf16_to_utf8 ==
  LET fail == Save ** Close("ic") ** Free("out") ** Restore ** Bad
  IN  Try(Open("ic"), Bad) ** Loop(Try(Growing("out", Alloc), fail) ** Sys.bad ** Free("out") ** Opt(fail))
      ** Try(Growing("out", Alloc), fail) ** Try(Sys, fail) ** Close("ic") ** Give("out") ** Ok
hivex_value_utf8 == Must(Call) ** MustSys(Of(utf16_to_utf8)) ** Ok

-----------------------------------------------------------------------------
(* inspect-fs-cd.c *)

\* A line that first_egrep_of_file looks for; a number in it.
Line == Must(Call) ** Opt(Grow("str") ** Free("str"))
NumberLine == Must(Call) ** Opt(Grow("str") ** If(Number, Free("str"), Free("str") ** Bad))
check_debian_installer_root == Must(Call) ** Run(parse_major_minor) ** Checks ** Opt(Must(Call)) ** Ok
check_fedora_installer_root == Line ** Line ** Line ** NumberLine ** Line ** NumberLine ** NumberLine ** Ok
check_isolinux_installer_root == NumberLine ** NumberLine ** NumberLine ** NumberLine ** Ok
check_w2k3_installer_root == Line ** NumberLine ** NumberLine ** Line ** Ok
check_installer_root == Checks ** Opt(Must(Call)) ** Ok
check_installer_iso == Try(Quietly(Call), Ok) ** Must(Call) ** Ok

-----------------------------------------------------------------------------
(* osinfo.c *)

\* The lock is for reading the database, and is let go on every path.
osinfo_map == Get("lock") ** Opt(Try(Call, Put("lock") ** Bad)) ** Put("lock") ** Ok
\* No directory is no error; after one, what has been read is freed.
read_osinfo_db ==
  LET free == Free("osinfo_db") ** Bad
      error == Close("dir") ** free
  IN  Try(Open("dir"), Ok) ** Loop(Host ** Grow("osinfo_db") ** Try(Call, error)) ** Try(Sys, Perror ** error)
      ** Try(Closing("dir"), Perror ** free) ** Give("osinfo_db") ** Ok
read_osinfo_db_xml ==
  Host ** Opt(Ok) ** Refuse ** Refuse
  ** Loop(Grow("osinfo") ** Try(Call, Free("osinfo") ** Bad) ** Give("osinfo")) ** Ok
\* read_media_node too.
compile_re == Host ** Ok
read_iso_node == Loop(Must(Of(compile_re))) ** Ok
read_os_node == Loop(Must(Call)) ** Ok
parse_version == Opt(Must(Number) ** Must(Number)) ** Ok

-----------------------------------------------------------------------------
(* inspect-apps.c *)

inspect_list_applications == Must(Growing("r", Call)) ** Free("r") ** Ok
inspect_list_applications2 == Must(Of(search_for_root)) ** Opt(Must(Call)) ** Ok
read_package == Grow("nevra") ** Free("nevra") ** Ok
read_rpm_name == Ok
\* Two databases are downloaded, and their dumps read.
list_applications_rpm ==
  LET error == Free("list") ** Free("apps") ** Bad
  IN  Must(Call) ** Must(Call) ** Grow("list") ** Try(Call, error) ** Grow("apps") ** Try(Call, error)
      ** Free("list") ** Give("apps") ** Ok
list_applications_deb ==
  LET out == Free("apps") ** Bad
  IN  Must(Call) ** Try(Open("fp"), Perror ** out) ** Grow("apps") ** Loop(Host)
      ** Try(Closing("fp"), Perror ** out) ** Give("apps") ** Ok
list_applications_windows ==
  Must(Call) ** Must(Taking("hive", Call)) ** Grow("ret") ** Checks ** HiveClose ** Give("ret") ** Ok
list_applications_windows_from_path == Checks ** Opt(Checks ** Loop(Checks)) ** Ok

-----------------------------------------------------------------------------
(* inspect-icon.c *)

inspect_get_icon == Must(Of(search_for_root)) ** Opt(Must(Call) ** Opt(Ok)) ** Opt(Must(Call)) ** Ok
\* What fails after the file has been found counts as not found.
get_png == Must(Call) ** Opt(Ok) ** Try(Call, Ok) ** Opt(Ok) ** Try(Call, Ok) ** Must(Call) ** Ok
icon_favicon ==
  Grow("filename") ** Opt(Ignore(Of(case_sensitive_path_silently)))
  ** If(Call, Free("filename") ** Ok, Free("filename") ** Bad)
\* icon_rhel, icon_debian, icon_ubuntu, icon_mageia and icon_opensuse too.
icon_fedora == Must(Call) ** Ok
icon_cirros == Must(Call) ** Opt(Ok) ** Try(Call, Ok) ** Opt(Ok) ** Try(Call, Ok) ** Try(Call, Ok) ** Opt(Ok) ** Must(Call) ** Ok
\* icon_windows_7 too.
icon_windows_xp ==
  Must(Call) ** Must(Quietly(Call)) ** Opt(Ok) ** Try(Call, Ok) ** Must(Call) ** Opt(Ok) ** Must(Call) ** Ok
icon_windows_8 ==
  Try(Of(case_sensitive_path_silently), Ok) ** Must(Quietly(Call)) ** Opt(Ok) ** Try(Call, Ok) ** Must(Call) ** Ok
icon_windows == Opt(Must(Call)) ** Ok
read_whole_file ==
  LET error == Free("data") ** Close("fd") ** Bad
  IN  MustSys(Open("fd")) ** Try(Sys, Perror ** error) ** Grow("data")
      ** Loop(Try(Sys, Perror ** error) ** Opt(Error ** error))
      ** Try(Closing("fd"), Perror ** Free("data") ** Bad) ** Give("data") ** Ok

-----------------------------------------------------------------------------
(* filearch.c, dbdump.c, lpj.c *)

\* libmagic tells what failed by other means than errno.
cpio_arch ==
  LET out == Free("dir") ** Bad
      magic == [ok |-> Host, bad |-> Host]
      binary ==
        Host ** Opt(Try(Open("m"), Perror ** out) ** Try(magic, Perror ** Close("m") ** out)
                    ** Try(magic, Perror ** Close("m") ** out)
                    ** Opt(Close("m") ** Free("dir") ** Ok) ** Close("m"))
  IN  MustSys(Alloc) ** Try(Call, Error ** out) ** Opt(Error ** out) ** Try(Growing("dir", Sys), Perror ** out) ** Try(Call, out)
      ** Try(Call, out) ** Opt(Error ** out) ** Opt(binary) ** Error ** out
file_architecture == Must(Call) ** (Ok \cup (Must(Call) ** Ok) \cup FailMsg)

\* A line that cannot be understood may have set an error of its own.
read_db_dump ==
  Grow("key") ** Opt(Error ** Ignore(Call) ** Free("key") ** FailMsg)
  ** If(Call, Free("key"), Free("key") ** Bad) ** Refuse ** Refuse ** Ok
convert_hex_to_binary == Grow("bin") ** Opt(Error ** Free("bin") ** Bad) ** Give("bin") ** Ok

read_lpj_common == Must(Call) ** Opt(Bad) ** Ok
read_lpj_from_dmesg == read_lpj_common
read_lpj_from_files == Host ** Opt(Bad) ** read_lpj_common
\* It must not fail: a value that is not positive is ignored.
get_lpj == Get("lock") ** Opt(Try(Of(read_lpj_from_dmesg), Run(read_lpj_from_files))) ** Put("lock") ** Ok
-----------------------------------------------------------------------------
(* The table *)

InspectFns ==
  {Fn("inspect_os", inspect_os), Fn("inspect_get_roots", inspect_get_roots), Fn("search_for_root", search_for_root),
   Fn("inspect_get_type", Getter), Fn("inspect_get_arch", Getter),
   Fn("inspect_get_distro", Getter), Fn("inspect_get_major_version", inspect_get_major_version),
   Fn("inspect_get_minor_version", inspect_get_major_version),
   Fn("inspect_get_product_name", inspect_get_product_name),
   Fn("inspect_get_product_variant", inspect_get_product_name), Fn("inspect_get_format", inspect_get_format),
   Fn("inspect_is_live", inspect_get_format), Fn("inspect_is_netinst", inspect_get_format),
   Fn("inspect_is_multipart", inspect_get_format), Fn("inspect_get_drive_mappings", inspect_get_drive_mappings),
   Fn("inspect_get_package_format", inspect_get_drive_mappings),
   Fn("inspect_get_package_management", inspect_get_drive_mappings),
   Fn("inspect_get_hostname", inspect_get_drive_mappings),
   Fn("inspect_get_windows_systemroot", inspect_get_windows_systemroot),
   Fn("inspect_get_windows_current_control_set", inspect_get_windows_systemroot),
   Fn("inspect_get_mountpoints", inspect_get_mountpoints), Fn("inspect_get_filesystems", inspect_get_mountpoints),
   Fn("download_to_tmp", download_to_tmp), Fn("extend_fses", extend_fses), Fn("is_file_nocase", is_file_nocase),
   Fn("is_dir_nocase", is_file_nocase), Fn("check_for_filesystem_on", check_for_filesystem_on),
   Fn("check_filesystem", check_filesystem), Fn("parse_unsigned_int", parse_unsigned_int),
   Fn("parse_unsigned_int_ignore_trailing", parse_unsigned_int),
   Fn("parse_major_minor", parse_major_minor), Fn("first_line_of_file", first_line_of_file),
   Fn("first_egrep_of_file", first_line_of_file), Fn("parse_release_file", parse_release_file),
   Fn("parse_lsb_release", parse_lsb_release), Fn("parse_suse_release", parse_suse_release),
   Fn("check_linux_root", check_linux_root), Fn("check_freebsd_root", check_freebsd_root),
   Fn("check_netbsd_root", check_netbsd_root), Fn("check_hurd_root", check_hurd_root),
   Fn("check_minix_root", check_minix_root), Fn("check_architecture", check_architecture),
   Fn("check_hostname_unix", check_hostname_unix), Fn("check_hostname_redhat", check_hostname_redhat),
   Fn("check_hostname_freebsd", check_hostname_freebsd), Fn("add_fstab_entry", add_fstab_entry),
   Fn("check_fstab", check_fstab), Fn("is_partition", is_partition),
   Fn("resolve_fstab_device_xdev", resolve_fstab_device_xdev),
   Fn("resolve_fstab_device_cciss", resolve_fstab_device_xdev),
   Fn("resolve_fstab_device_diskbyid", resolve_fstab_device_diskbyid),
   Fn("resolve_fstab_device", resolve_fstab_device), Fn("inspect_with_augeas", inspect_with_augeas),
   Fn("is_systemroot", is_systemroot), Fn("get_windows_systemroot", get_windows_systemroot),
   Fn("check_windows_root", check_windows_root), Fn("check_windows_arch", check_windows_arch),
   Fn("check_windows_software_registry", check_windows_software_registry),
   Fn("check_windows_system_registry", check_windows_system_registry),
   Fn("map_registry_disk_blob", map_registry_disk_blob), Fn("hivex_value_utf8", hivex_value_utf8),
   Fn("check_debian_installer_root", check_debian_installer_root),
   Fn("check_fedora_installer_root", check_fedora_installer_root),
   Fn("check_isolinux_installer_root", check_isolinux_installer_root),
   Fn("check_w2k3_installer_root", check_w2k3_installer_root), Fn("check_installer_root", check_installer_root),
   Fn("check_installer_iso", check_installer_iso), Fn("osinfo_map", osinfo_map),
   Fn("read_osinfo_db", read_osinfo_db), Fn("read_osinfo_db_xml", read_osinfo_db_xml), Fn("compile_re", compile_re),
   Fn("read_iso_node", read_iso_node), Fn("read_media_node", compile_re), Fn("read_os_node", read_os_node),
   Fn("parse_version", parse_version), Fn("inspect_list_applications", inspect_list_applications),
   Fn("inspect_list_applications2", inspect_list_applications2), Fn("read_package", read_package),
   Fn("read_rpm_name", read_rpm_name), Fn("list_applications_rpm", list_applications_rpm),
   Fn("list_applications_deb", list_applications_deb), Fn("list_applications_windows", list_applications_windows),
   Fn("list_applications_windows_from_path", list_applications_windows_from_path),
   Fn("inspect_get_icon", inspect_get_icon), Fn("get_png", get_png), Fn("icon_favicon", icon_favicon),
   Fn("icon_fedora", icon_fedora), Fn("icon_rhel", icon_fedora), Fn("icon_debian", icon_fedora),
   Fn("icon_ubuntu", icon_fedora), Fn("icon_mageia", icon_fedora), Fn("icon_opensuse", icon_fedora),
   Fn("icon_cirros", icon_cirros), Fn("icon_windows_xp", icon_windows_xp), Fn("icon_windows_7", icon_windows_xp),
   Fn("icon_windows_8", icon_windows_8), Fn("icon_windows", icon_windows), Fn("read_whole_file", read_whole_file),
   Fn("cpio_arch", cpio_arch), Fn("file_architecture", file_architecture), Fn("read_db_dump", read_db_dump),
   Fn("convert_hex_to_binary", convert_hex_to_binary), Fn("get_lpj", get_lpj)}
=============================================================================
