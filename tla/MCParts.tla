------------------------------- MODULE MCParts --------------------------------
(* The parts that work alone, each with its own state: one of them runs, and *)
(* the others stay where they start.                                         *)
EXTENDS Bitmap, LdrReloc, LdrIndexes, ExportGen

CONSTANTS kernelbase, copy1, copy2

VARIABLE part

PartsInit ==
    /\ part \in {"bitmap", "relocation", "indexes", "exports"}
    /\ BitmapInit /\ GenInit
    /\ RelocInit /\ (part # "relocation" => tableSize = 0)
    /\ IndexesInit
    /\ part # "indexes" => /\ release.build = 2195 /\ initOrder = {kernel32}
                           /\ hasData
                           /\ headerAt["BaseAddressIndex"] = 0 /\ copies["BaseAddressIndex"] = {}
                           /\ headerAt["MappingInfoIndex"] = 2 /\ copies["MappingInfoIndex"] = {}

PartsNext ==
    /\ UNCHANGED part
    /\ \/ /\ part = "bitmap" /\ BitmapNext
          /\ UNCHANGED <<relocVars, indexVars, genVars>>
       \/ /\ part = "relocation" /\ RelocNext
          /\ UNCHANGED <<bitmapVars, indexVars, genVars>>
       \/ /\ part = "indexes" /\ IndexesNext
          /\ UNCHANGED <<bitmapVars, relocVars, genVars>>
       \/ /\ part = "exports" /\ GenNext
          /\ UNCHANGED <<bitmapVars, relocVars, indexVars>>

PartsSpec == PartsInit /\ [][PartsNext]_<<part, bitmapVars, relocVars, indexVars, genVars>>

-------------------------------------------------------------------------------
(* Releases of each family that the code tells apart, with service packs.  Of *)
(* two modules of Windows the names begin alike; the modules loaded from      *)
(* memory are copies of one of them, one under another name.                  *)

R(major, minor, build, csd) ==
    [major |-> major, minor |-> minor, build |-> build, csd |-> csd]

MCRelease ==
    {R(4, 0, 1381, 1536), R(5, 0, 2195, 1024), R(5, 1, 2600, 768), R(5, 2, 3790, 512),
     R(6, 0, 6000, 0), R(6, 0, 6002, 512), R(6, 1, 7600, 0), R(6, 1, 7601, 256),
     R(6, 2, 9200, 0), R(6, 3, 9600, 0), R(10, 0, 10240, 0), R(10, 0, 26100, 0)}

MCWindows == {ntdll, kernel32, kernelbase}
MCMemory  == {copy1, copy2}

MCDllBase == ntdll :> 5 @@ kernel32 :> 4 @@ kernelbase :> 2 @@ copy1 :> 3 @@ copy2 :> 1
MCTimeDateStamp ==
    ntdll :> 1 @@ kernel32 :> 2 @@ kernelbase :> 1 @@ copy1 :> 2 @@ copy2 :> 2
MCSizeOfImage ==
    ntdll :> 1 @@ kernel32 :> 2 @@ kernelbase :> 3 @@ copy1 :> 2 @@ copy2 :> 2

\* "NT", "K3", "KB", "K3" and "ZA".
MCBaseDllName ==
    ntdll :> <<78, 84>> @@ kernel32 :> <<75, 51>> @@ kernelbase :> <<75, 66>>
    @@ copy1 :> <<75, 51>> @@ copy2 :> <<90, 65>>
===============================================================================
