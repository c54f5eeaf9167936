------------------------------- MODULE Errno -------------------------------
(***************************************************************************)
(* The results of the broker: C return values, negative errno or not, and  *)
(* the empty payload.                                                      *)
(***************************************************************************)
EXTENDS Integers

OK      == 0
BLOCKED == 1
EPERM   == -1
ENOENT  == -2
EAGAIN  == -11
ENOMEM  == -12
EEXIST  == -17
EINVAL  == -22
ENOSPC  == -28
ERANGE  == -34

NoData == <<>>

=============================================================================
