----------------------------- MODULE DaemonFiles -----------------------------
(***************************************************************************)
(* The handlers of guestfsd that work on files and directories of the      *)
(* guest.  Each definition is the set of paths of the C function it is     *)
(* named after, and of its neighbours with the same paths.                 *)
(***************************************************************************)
EXTENDS CallPaths

(* file.c, truncate.c, fill.c, fallocate.c *)

do_touch ==
  If(GuestCall, Refuse, Opt(Fail))
  ** Try(GuestOpen("fd"), Fail) ** Try(Sys, FailClosing("fd")) ** FinishClosing("fd")
do_rm == Finish(GuestCall)
do_rm_f == If(GuestCall, Ok, Fail \cup Ok)
do_chmod == Refuse ** Finish(GuestCall)
\* do_lchown too.
do_chown == Finish(GuestCall)

\* A guest file is opened, changed and closed.
Write(c) == Try(GuestOpen("fd"), Fail) ** Try(c, FailClosing("fd")) ** FinishClosing("fd")
WriteLoop == Try(GuestOpen("fd"), Fail) ** Loop(Try(Sys, FailClosing("fd"))) ** FinishClosing("fd")

do_write_file == Refuse ** Write(Sys)
\* do_internal_write_append too.
do_internal_write == Write(Sys)
\* do_truncate too.
do_truncate_size == Write(Sys)
\* do_fill_pattern too.
do_fill == Refuse ** WriteLoop
do_fill_dir == Loop(Try(GuestOpen("fd"), Fail) ** Try(Closing("fd"), Fail)) ** Ok
do_fallocate64 == Write(Sys)
do_fallocate == Refuse ** do_fallocate64

\* The size is set last.
pread_fd_size_early ==
  Opt(Error ** Close("fd") ** Bad) ** Try(Growing("buf", Alloc), FailClosing("fd"))
  ** Try(Sys, Perror ** Close("fd") ** Free("buf") ** Bad)
  ** SetSize ** Try(Closing("fd"), Perror ** Free("buf") ** Bad) ** Give("buf") ** Ok
pread_fd ==
  Opt(Error ** Close("fd") ** Bad) ** Try(Growing("buf", Alloc), FailClosing("fd"))
  ** Try(Sys, Perror ** Close("fd") ** Free("buf") ** Bad)
  ** Try(Closing("fd"), Perror ** Free("buf") ** Bad) ** SetSize ** Give("buf") ** Ok
do_pread == Try(GuestOpen("fd"), Fail) ** pread_fd
do_pread_device == Try(Open("fd"), Fail) ** pread_fd
pwrite_fd(settle) == Try(Sys, FailClosing("fd")) ** Try(Closing("fd"), Fail) ** settle ** Ok
do_pwrite == Refuse ** Try(GuestOpen("fd"), Fail) ** pwrite_fd(Skip)
do_pwrite_device == Refuse ** Try(Open("fd"), Fail) ** pwrite_fd(udev_settle)

\* file: a path of the guest is looked at first.  On failure the output is freed before the reply.
do_file(is_dev) ==
  (IF is_dev THEN Skip
   ELSE Try(sysroot_path, Fail) ** Try(Sys, Fail) ** Opt(Finish(Alloc)))
  ** Try(CommandOut("out"), Free("out") ** FailMsg) ** Give("out") ** Ok
\* The copy of the line is not tested, and fgets leaves errno alone at the end of the file.
do_zfile ==
  Refuse ** Try(Alloc, Fail) ** Try(Open("pipe"), Fail)
  ** Try([Sys EXCEPT !.bad = @ \cup Host], FailClosing("pipe")) ** Try(Closing("pipe"), Fail) ** Try(Alloc, Bad) ** Ok
do_filesize == Finish(GuestCall)

-----------------------------------------------------------------------------
(* xattr.c *)

_listxattrs ==
  Try(GuestCall, Fail) ** Try(Growing("buf", Alloc), Fail) ** Try(GuestCall, Perror ** Free("buf") ** Bad)
  ** Give("buf") ** Ok
getxattrs ==
  LET error == Free("attrs") ** Free("val") ** Free("ret") ** Bad
  IN  Try(Of(_listxattrs), Bad) ** Try(Growing("ret", Alloc), Fail) ** Try(Growing("val", Alloc), Perror ** error)
      ** Loop(Try(GuestCall, Perror ** error) ** Opt(Error ** error) ** Grow("attrs") ** Try(Alloc, Perror ** error)
              ** Try(GuestCall, Perror ** error))
      ** Give("attrs") ** Give("val") ** Give("ret") ** Ok
\* do_lgetxattrs too.
do_getxattrs == getxattrs
_setxattr == Refuse ** Finish(GuestCall)
\* do_lsetxattr too.
do_setxattr == _setxattr
_removexattr == Finish(GuestCall)
\* do_lremovexattr too.
do_removexattr == _removexattr
\* do_getxattr and do_lgetxattr too.
_getxattr ==
  LET free == Free("buf") ** Bad
  IN  Try(GuestCall, Fail) ** Refuse ** Try(Growing("buf", Alloc), Fail) ** Try(GuestCall, Perror ** free)
      ** Opt(Error ** free) ** SetSize ** Give("buf") ** Ok

\* The attributes of one file, within do_internal_lxattrlist; a file that cannot be read is passed over.
lxattrlist_file(error) ==
  LET values == Try(GuestCall, Perror ** error) ** Opt(Error ** error) ** Grow("attrs")
                ** Try(Alloc, Perror ** error) ** Try(GuestCall, Perror ** error)
  IN  Try(Alloc, Perror ** error) ** Try(Growing("val", Alloc), Perror ** error)
      ** Try(Growing("attrs", Alloc), Perror ** error)
      ** If(GuestCall,
            Try(Alloc, Perror ** error)
            ** If(GuestCall, Try(Alloc, Perror ** error) ** Opt(values) ** Try(Alloc, Perror ** error), Skip),
            Skip)
do_internal_lxattrlist ==
  LET error == Free("attrs") ** Free("val") ** Free("ret") ** Bad
  IN  Try(Growing("ret", Alloc), Perror ** error) ** Loop(lxattrlist_file(error))
      ** Give("attrs") ** Give("val") ** Give("ret") ** Ok

copy_xattrs ==
  Try(Of(_listxattrs), Bad)
  ** Loop(Try(GuestCall, Fail) ** Refuse ** Opt(Try(Alloc, Fail)) ** Try(GuestCall, Fail) ** Try(GuestCall, Fail)) ** Ok
\* file.c, again
do_copy_attributes ==
  Try(GuestCall, Fail) ** Try(GuestCall, Fail) ** Opt(Try(GuestCall, Fail)) ** Opt(Try(GuestCall, Fail))
  ** Opt(Try(Of(copy_xattrs), Bad)) ** Ok

-----------------------------------------------------------------------------
(* dir.c, link.c, is.c, mknod.c, rename.c, utimens.c, umask.c, mktemp.c *)

do_rmdir == Finish(GuestCall)
do_rm_rf == Refuse ** Try(sysroot_path, Fail) ** FinishCommand
do_mkdir == Finish(GuestCall)
do_mkdir_mode == Refuse ** Finish(GuestCall)
\* recursive_mkdir: returns 0, -1 with errno, or -2.
recursive_mkdir ==
  LET Once(up) == If(Guest, Ok, If(Guest, Ok \cup Ev("return", "-2"), Bad) \cup Try(Alloc, Bad) ** up \cup Bad)
      parent   == Once(Bad)
  IN  Once({p \in parent : p[Len(p)][2] # "ok"} \cup Returns(parent, "ok") ** Once(Bad))
do_mkdir_p ==
  In ** ((Returns(recursive_mkdir, "ok") ** Out ** Ok) \cup (Returns(recursive_mkdir, "bad") ** Out ** Fail)
         \cup (Returns(recursive_mkdir, "-2") ** Out ** FailMsg))

do_readlink == Finish(GuestCall)
do_internal_readlinklist ==
  Try(GuestOpen("dir"), Fail)
  ** Loop(Ignore(Sys) ** Try(AddString("strs"), Close("dir") ** Bad)) ** Close("dir") ** EndStrings("strs")
do_ln == Finish(GuestCall)
do_ln_f_inside == In ** Ignore(Guest) ** If(Guest, Out ** Ok, Fail)
do_ln_f == In ** Ignore(Guest) ** If(Guest, Out ** Ok, Out ** Fail)
\* do_ln_s and do_ln_sf too.
_symlink == Try(sysroot_path, Fail) ** FinishCommand

\* do_exists and the do_is_* functions too.
get_mode == If(GuestCall, Ok, Fail \cup Ok)

\* do_mkfifo, do_mknod_b and do_mknod_c too.
do_mknod == Refuse ** Finish(GuestCall)
do_rename == Finish(GuestCall)
do_utimens == Finish(GuestCall)
do_umask == Refuse ** Finish(Sys)
do_get_umask == Try(Sys, Fail) ** Host ** Ok
do_mkdtemp == Try(Growing("buf", Alloc), Fail) ** Try(GuestCall, Perror ** Free("buf") ** Bad) ** Give("buf") ** Ok
do_mktemp ==
  Refuse ** Try(Growing("buf", Alloc), Fail)
  ** Try(GuestOpen("fd"), Perror ** Free("buf") ** Bad) ** Close("fd") ** Give("buf") ** Ok

-----------------------------------------------------------------------------
(* stat.c, statvfs.c, readdir.c, glob.c, realpath.c *)

stat_to_statns == Finish(Alloc)
\* do_lstatns too.
do_statns == Try(GuestCall, Fail) ** stat_to_statns
do_internal_lstatnslist ==
  LET free == Free("val") ** Free("ret") ** Bad
  IN  Try(Growing("ret", Alloc), Fail) ** Try(Growing("val", Alloc), Perror ** Free("ret") ** Bad)
      ** Try(GuestOpen("dir"), Perror ** free) ** Loop(Ignore(Sys)) ** Try(Closing("dir"), Perror ** free)
      ** Give("val") ** Give("ret") ** Ok
do_statvfs == Try(GuestCall, Fail) ** Finish(Alloc)

\* The names of the entries are not freed on failure; and when only the copy of a name fails, the list of the
\* entries before it is freed twice: by its old address and by its new one.
do_readdir ==
  LET closing == Free("ret") ** Close("dir") ** Bad
      first == (Errno ** Perror ** closing) \cup (Get("val") ** Grow("names"))
      more  == (Errno ** Perror ** Put("val") ** Opt(Put("val")) ** closing) \cup Grow("names")
  IN  Try(Growing("ret", Alloc), Fail) ** Try(GuestOpen("dir"), Perror ** Free("ret") ** Bad)
      ** ((Try(Closing("dir"), Perror ** Free("ret") ** Bad) ** Give("ret") ** Ok)
          \cup (first ** Opt(more) ** Try(Closing("dir"), Perror ** Put("val") ** Free("ret") ** Bad)
                ** Give("names") ** Put("val") ** Give("ret") ** Ok))

do_glob_expand == If(GuestCall, Ok, Finish(Alloc) \cup Fail \cup FailMsg)
do_realpath == Finish(GuestCall)

find_path_element ==
  Try(Open("fd2"), Fail) ** Try(Sys, FailClosing("fd2"))
  ** Loop(Host) ** Try(Sys, FailClosing("fd2"))
  ** ((Close("fd2") ** Finish(Alloc)) \cup (Error ** Close("fd2") ** Bad)
      \cup (Try(Alloc, FailClosing("fd2")) ** FinishClosing("fd2")))
\* A path element, the directory entered at its end; the last one need not be a directory.
case_sensitive_element(left) ==
  LET error == Close("cwd") ** Free("ret") ** Bad
  IN  Opt(Error ** error) ** Try(Alloc, Perror ** error) ** Try(Of(find_path_element), error)
      ** Try(Alloc, Perror ** error) ** If(Sys, Save ** Close("cwd") ** Get("cwd"), Save ** Close("cwd") ** Restore ** left)
do_case_sensitive_path ==
  LET fail == Perror ** Free("ret") ** Bad
      done == Give("ret") ** Ok
  IN  Try(Growing("ret", Alloc), Fail) ** Try(Open("cwd"), fail)
      ** Opt(case_sensitive_element(fail)) ** Opt(case_sensitive_element(fail \cup done)) ** Close("cwd") ** done

-----------------------------------------------------------------------------
(* ls.c, find.c, grep.c, headtail.c, wc.c, strings.c, hexdump.c, cmp.c, df.c, du.c, scrub.c *)

\* The listing is sent after the reply; then there is only cancelling it.
SendClosing(r) ==
  Try(Sys, EndFile ** Close(r) ** Bad) ** Try(Closing(r), EndFile ** Bad) ** EndFile ** (Ok \cup Bad)
do_ls0 ==
  Try(GuestOpen("dir"), Fail) ** Reply ** Loop(Host ** Opt(Try(Send, Close("dir") ** Bad))) ** SendClosing("dir")
\* do_ll and do_llz too.
ls_command == Try(sysroot_path, Fail) ** Try(CommandOut("out"), Error ** Free("out") ** Bad) ** Give("out") ** Ok

\* input_to_nul: a path that is too long is replied to, after the reply, and the listing ends there.
input_to_nul == [ok |-> Host, bad |-> Host \cup (Host ** Error)]
do_find0 ==
  Try(sysroot_path, Fail) ** Try(Sys, Fail) ** Refuse ** Try(Alloc, Fail) ** Try(Open("pipe"), Fail) ** Reply
  ** Loop(input_to_nul.ok ** Opt(Try(Send, Close("pipe") ** Bad))) ** input_to_nul.bad ** SendClosing("pipe")

\* A program that reads a guest file as its input.
Filter_closes == Try(GuestOpen("fd"), Fail) ** Try(CommandStdin("fd"), Error ** Close("fd") ** Bad)
Filter == Try(GuestOpen("fd"), Fail) ** Try(CommandStdin("fd"), FailMsg)

\* do_grep and the eleven functions after it too.
grep == Refuse ** Filter ** split_lines
\* do_head, do_tail, do_head_n and do_tail_n too.
headtail == Filter ** split_lines
\* do_wc_l, do_wc_w and do_wc_c too.
wc == Filter ** Refuse ** Ok
\* do_strings too.
do_strings_e == Refuse ** Filter ** split_lines
do_hexdump ==
  Try(GuestOpen("fd"), Fail) ** Try(After(Grow("out"), CommandStdin("fd")), Error ** Free("out") ** Bad) ** Give("out") ** Ok
do_equal == Try(sysroot_path, Fail) ** Try(sysroot_path, Fail) ** FinishCommand
\* do_df and do_df_h too.
df == NeedRoot ** Try(CommandOut("out"), Error ** Free("out") ** Bad) ** Give("out") ** Ok
\* The progress messages stop before an error is sent.
do_du_late_cancel ==
  Try(sysroot_path, Fail) ** PulseStart ** Try(Command, Error ** PulseCancel ** Bad)
  ** Opt(PulseCancel ** FailMsg) ** PulseEnd ** Ok
do_du ==
  Try(sysroot_path, Fail) ** PulseStart ** Try(Command, PulseCancel ** FailMsg)
  ** Opt(PulseCancel ** FailMsg) ** PulseEnd ** Ok
do_scrub_device == FinishCommand
do_scrub_file == Try(sysroot_realpath, Fail) ** FinishCommand
do_scrub_freespace == Try(sysroot_path, Fail) ** FinishCommand

-----------------------------------------------------------------------------
(* acl.c, cap.c, selinux.c *)

\* Text of the library's own is copied and given back to it.
Text(r) ==
  Try(Taking("text", Sys), FailClosing(r)) ** Close(r) ** Try(Alloc, FailClosing("text")) ** Close("text") ** Ok
do_acl_get_file == Refuse ** Try(GuestOpen("acl"), Fail) ** Text("acl")
do_acl_set_file == Refuse ** Try(Open("acl"), Fail) ** Try(GuestCall, FailClosing("acl")) ** Close("acl") ** Ok
do_acl_delete_def_file == Finish(GuestCall)
do_cap_get_file == Try(GuestOpen("cap"), Finish(Alloc) \cup Fail) ** Text("cap")
do_cap_set_file == Try(Open("cap"), Fail) ** Try(GuestCall, FailClosing("cap")) ** Close("cap") ** Ok
do_setcon == Finish(Sys)
do_getcon == Try(Growing("con", Sys), Fail) ** If(Alloc, Free("con") ** Ok, Free("con") ** Fail)
-----------------------------------------------------------------------------
(* The table *)

\* The arguments and the result of each call, from the generator's table of actions.
FileProcs ==
  {OnPath("touch", do_touch), OnPath("rm", do_rm), OnPath("rm_f", do_rm_f), OnPath("chmod", do_chmod),
   OnPath("chown", do_chown), OnPath("lchown", do_chown), OnPath("write_file", do_write_file),
   OnPath("internal_write", do_internal_write), OnPath("internal_write_append", do_internal_write),
   OnPath("truncate_size", do_truncate_size), OnPath("truncate", do_truncate_size), OnPath("fill", do_fill),
   OnPath("fill_pattern", do_fill), OnPath("fill_dir", do_fill_dir), OnPath("fallocate64", do_fallocate64),
   OnPath("fallocate", do_fallocate), Proc("pread", TRUE, "none", TRUE, do_pread),
   Proc("pread_device", FALSE, "none", TRUE, do_pread_device), OnPath("pwrite", do_pwrite),
   OnDevice("pwrite_device", do_pwrite_device), OnPath("file", do_file(FALSE)), OnDevice("file", do_file(TRUE)),
   OnPath("zfile", do_zfile), OnPath("filesize", do_filesize), OnPath("getxattrs", do_getxattrs),
   OnPath("lgetxattrs", do_getxattrs), OnPath("setxattr", do_setxattr), OnPath("lsetxattr", do_setxattr),
   OnPath("removexattr", do_removexattr), OnPath("lremovexattr", do_removexattr),
   Proc("getxattr", TRUE, "none", TRUE, _getxattr), Proc("lgetxattr", TRUE, "none", TRUE, _getxattr),
   OnPath("internal_lxattrlist", do_internal_lxattrlist), OnPath("copy_attributes", do_copy_attributes),
   OnPath("rmdir", do_rmdir), OnPath("rm_rf", do_rm_rf), OnPath("mkdir", do_mkdir),
   OnPath("mkdir_mode", do_mkdir_mode), OnPath("mkdir_p", do_mkdir_p), OnPath("readlink", do_readlink),
   OnPath("internal_readlinklist", do_internal_readlinklist), OnPath("ln", do_ln), OnPath("ln_f", do_ln_f),
   OnPath("ln_s", _symlink), OnPath("ln_sf", _symlink), OnPath("exists", get_mode), OnPath("is_file", get_mode),
   OnPath("is_dir", get_mode), OnPath("is_chardev", get_mode), OnPath("is_blockdev", get_mode),
   OnPath("is_fifo", get_mode), OnPath("is_symlink", get_mode), OnPath("is_socket", get_mode),
   OnPath("mknod", do_mknod), OnPath("mkfifo", do_mknod), OnPath("mknod_b", do_mknod),
   OnPath("mknod_c", do_mknod), OnPath("rename", do_rename), OnPath("utimens", do_utimens),
   OnDevice("umask", do_umask), OnDevice("get_umask", do_get_umask), OnPath("mkdtemp", do_mkdtemp),
   OnPath("mktemp", do_mktemp), OnPath("statns", do_statns), OnPath("lstatns", do_statns),
   OnPath("internal_lstatnslist", do_internal_lstatnslist), OnPath("statvfs", do_statvfs),
   OnPath("readdir", do_readdir), OnPath("glob_expand", do_glob_expand), OnPath("realpath", do_realpath),
   OnPath("case_sensitive_path", do_case_sensitive_path), Proc("ls0", TRUE, "out", FALSE, do_ls0),
   OnPath("ll", ls_command), OnPath("llz", ls_command), Proc("find0", TRUE, "out", FALSE, do_find0), OnPath("grep", grep),
   OnPath("egrep", grep), OnPath("fgrep", grep), OnPath("grepi", grep), OnPath("egrepi", grep),
   OnPath("fgrepi", grep), OnPath("zgrep", grep), OnPath("zegrep", grep), OnPath("zfgrep", grep),
   OnPath("zgrepi", grep), OnPath("zegrepi", grep), OnPath("zfgrepi", grep),
   OnPath("head", headtail), OnPath("tail", headtail), OnPath("head_n", headtail), OnPath("tail_n", headtail),
   OnPath("wc_l", wc), OnPath("wc_w", wc), OnPath("wc_c", wc), OnPath("strings_e", do_strings_e),
   OnPath("strings", do_strings_e), OnPath("hexdump", do_hexdump), OnPath("equal", do_equal), OnDevice("df", df),
   OnDevice("df_h", df), OnPath("du", do_du), OnDevice("scrub_device", do_scrub_device),
   OnPath("scrub_file", do_scrub_file), OnPath("scrub_freespace", do_scrub_freespace),
   OnPath("acl_get_file", do_acl_get_file), OnPath("acl_set_file", do_acl_set_file),
   OnPath("acl_delete_def_file", do_acl_delete_def_file), OnPath("cap_get_file", do_cap_get_file),
   OnPath("cap_set_file", do_cap_set_file), OnDevice("setcon", do_setcon), OnDevice("getcon", do_getcon)}
=============================================================================
