----------------------------- MODULE MCRelease -----------------------------
(* Instances of ReleaseCache for TLC.                                      *)
EXTENDS ReleaseProps

CONSTANTS a1, a2, a3, b3, agentApk

(* a1, a2 and a3 are releases in order; b3 carries a versionCode no        *)
(* greater than that of a2.                                                *)
Version == [a \in Apks |-> CASE a = a1 -> 1 [] a = a2 -> 2 [] OTHER -> 3]
Code    == [a \in Apks |-> CASE a = a1 -> 1 [] a = a2 -> 2 [] a = a3 -> 3
                             [] OTHER -> 2]

(* The same releases built with versionCodes that do not follow the tags.  *)
CodeAstray == [a \in Apks |-> CASE a = a1 -> 2 [] a = a2 -> 3 [] OTHER -> 1]

Stable(t, a)  == [tag |-> t, apk |-> a, pre |-> FALSE]
Preview(t, a) == [tag |-> t, apk |-> a, pre |-> TRUE]

Channel   == {Stable(1, a1), Stable(2, a2), Stable(3, a3)}
Previewed == {Stable(1, a1), Preview(2, a2), Stable(3, a3)}

(* A tag whose APK was built with an old versionCode, and one whose APK    *)
(* belongs to another version.                                             *)
Faulty    == Previewed \cup {Stable(3, b3), Stable(2, a1)}

Both      == BOOLEAN
StableOnly == {FALSE}

=============================================================================
