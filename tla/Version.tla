------------------------------- MODULE Version --------------------------------
(***************************************************************************)
(* win-polyfill-core/version.h: a release of Windows as one DWORD, so that *)
(* the loader can tell families of releases apart by a comparison.  In the *)
(* releases there are the fields do not overlap, and | is +.               *)
(***************************************************************************)
EXTENDS Integers

MakeSystemVersionCompact(major, minor, build, csd) ==
    major * 16777216 + minor * 65536 + build + csd \div 256

SYSTEM_NT_5_1_RTM == MakeSystemVersionCompact(5, 1, 2600, 0)
SYSTEM_NT_6_0_RTM == MakeSystemVersionCompact(6, 0, 6000, 0)
SYSTEM_NT_6_1_RTM == MakeSystemVersionCompact(6, 1, 7600, 0)
SYSTEM_NT_6_2_RTM == MakeSystemVersionCompact(6, 2, 9200, 0)

\* The PEB holds the service pack as csd, which is shifted before the call and
\* once more in it.
GetSystemVersionCompact(r) ==
    MakeSystemVersionCompact(r.major, r.minor, r.build, r.csd \div 256)
===============================================================================
