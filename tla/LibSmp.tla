------------------------------- MODULE LibSmp -------------------------------
(***************************************************************************)
(* What every part of libsmp shares: the error codes of include/libsmp.h.  *)
(* A call returns 0 or a positive count on success and one of these        *)
(* negative numbers on failure, and callers test the sign.                 *)
(***************************************************************************)
EXTENDS Integers

SMP_ERROR_NONE          == 0
SMP_ERROR_INVALID_PARAM == -1
SMP_ERROR_NO_MEM        == -2
SMP_ERROR_NO_DEVICE     == -3
SMP_ERROR_NOT_FOUND     == -4
SMP_ERROR_BUSY          == -5
SMP_ERROR_PERM          == -6
SMP_ERROR_BAD_FD        == -7
SMP_ERROR_NOT_SUPPORTED == -8
SMP_ERROR_WOULD_BLOCK   == -9
SMP_ERROR_IO            == -10
SMP_ERROR_EXIST         == -11
SMP_ERROR_TOO_BIG       == -12
SMP_ERROR_TIMEDOUT      == -13
SMP_ERROR_OVERFLOW      == -14
SMP_ERROR_BAD_MESSAGE   == -15
SMP_ERROR_BAD_TYPE      == -16
SMP_ERROR_PIPE          == -17
SMP_ERROR_OTHER         == -100

=============================================================================
