----------------------------- MODULE G5Sensord -----------------------------
(***************************************************************************)
(* The daemon g5sensord (g5sensord/g5sensord.c): it reads the sensors that *)
(* are wanted, keeps the magnetometer readings of all attitudes in a       *)
(* constellation of pitch, roll and yaw bins, fits the calibration to the  *)
(* newest of them and saves it in a file for its next start.  It is killed *)
(* and started again by libsensors (sensors.cpp 204).                      *)
(*                                                                         *)
(* An attitude is the direction of gravity in the axes of the phone, with  *)
(* components -1, 0 and 1, turned about one axis at a time, so that every  *)
(* angle is a multiple of 45 degrees; the heading is free.  The linear     *)
(* algebra is left out: a fit is "fitted", whatever it computes.           *)
(***************************************************************************)
EXTENDS Integers, FiniteSets, FiniteSetsExt

CONSTANTS
    Attitudes,       \* <<fGpx, fGpy, fGpz>>
    CURRENTMAXPITCH, CURRENTMAXROLL, CURRENTMAXYAW,
    MINEQUATIONS, MAXEQUATIONS, CALINTERVAL,
    MaxSamples       \* bound: samples taken since a start

ASSUME binsAssumption ==
    {CURRENTMAXPITCH, CURRENTMAXROLL, CURRENTMAXYAW} \subseteq Nat \ {0}
ASSUME equationsAssumption ==
    /\ MINEQUATIONS \in 1..MAXEQUATIONS
    /\ MAXEQUATIONS \in 1..(CURRENTMAXPITCH * CURRENTMAXROLL * CURRENTMAXYAW)
    /\ CALINTERVAL \in Nat \ {0}

(* One axis at a time, so that the angles are exact.                       *)
ASSUME attitudesAssumption ==
    \A g \in Attitudes : g[1] * g[2] = 0 /\ (g[2] # 0 => g[3] >= 0)

VARIABLES
    process,         \* "stopped", "running"
    file,            \* g5s_calib: "absent", "empty" or "fitted"
    cal,             \* fVx..fVz and finvW: "none", "fitted" or "garbage"
    ConIndex, ConstCount, loopcounter, validcal,
    earliestsample, nequations,
    calAt,           \* loopcounter at the last fit
    everFitted,      \* a calibration has been saved
    corrupted        \* the daemon has written outside the constellation

daemonVars == <<process, file, cal, ConIndex, ConstCount, loopcounter,
                validcal, earliestsample, nequations, calAt, everFitted, corrupted>>

NumBins == CURRENTMAXPITCH * CURRENTMAXROLL * CURRENTMAXYAW
Bins == (0..(CURRENTMAXPITCH - 1)) \X (0..(CURRENTMAXROLL - 1)) \X (0..(CURRENTMAXYAW - 1))

(* ResetCalibrationFunc(); what a new process finds in its own variables.  *)
ResetCalibration(cal0) ==
    /\ cal' = cal0
    /\ loopcounter' = 0
    /\ validcal' = 0
    /\ ConIndex' = [b \in Bins |-> -1]
    /\ ConstCount' = 0

DaemonInit ==
    /\ process = "stopped"
    /\ file \in {"absent", "empty"}
    /\ cal = "none"
    /\ ConIndex = [b \in Bins |-> -1]
    /\ ConstCount = 0 /\ loopcounter = 0 /\ validcal = 0
    /\ earliestsample = 0 /\ nequations = 0 /\ calAt = -1
    /\ everFitted = FALSE /\ corrupted = FALSE

(* Mutants.  An operator whose name ends in _X<n> is a changed form of the *)
(* definition after it, the way a bug would change it; nothing uses it.    *)
main_X1 ==                                       \* opens the file with "wb+"
    /\ process = "stopped"
    /\ process' = "running"
    /\ ResetCalibration("none")
    /\ file' = "empty"
    /\ earliestsample' = 0 /\ nequations' = 0 /\ calAt' = -1
    /\ corrupted' = FALSE
    /\ UNCHANGED everFitted

(* A start.  An empty file leaves ftmpx, ftmpy and ftmpz as they were on   *)
(* the stack: the soft iron matrix stays or becomes garbage.               *)
main ==
    /\ process = "stopped"
    /\ process' = "running"
    /\ \/ file = "fitted" /\ ResetCalibration("fitted") /\ UNCHANGED file
       \/ /\ file = "empty"
          /\ ResetCalibration("none") \/ ResetCalibration("garbage")
          /\ UNCHANGED file
       \/ file = "absent" /\ ResetCalibration("none") /\ file' = "empty"
    /\ earliestsample' = 0 /\ nequations' = 0 /\ calAt' = -1
    /\ corrupted' = FALSE
    /\ UNCHANGED everFitted
-----------------------------------------------------------------------------
(* feCompass().  Angles are in units of 45 degrees.  The de-rotation by    *)
(* the roll takes the absolute value of the cosine, so that fGz is still   *)
(* negative after it when the phone lies on its face.                      *)
atan2(y, x) ==
    CASE x > 0 -> y
      [] x = 0 -> 2 * y
      [] x < 0 -> IF y = 0 THEN 4 ELSE y * 3

fPhi(g) == atan2(g[2], IF g[3] < 0 THEN -1
                       ELSE IF g[3] = 0 /\ g[1] = 0 THEN 0 ELSE 1)
fThe(g) == -atan2(g[1], IF g[2] # 0 THEN 1 ELSE g[3])

(* (int) of a quotient of integers: towards zero.                          *)
trunc(n, d) == IF n >= 0 THEN n \div d ELSE -((-n) \div d)

Clip(n, m) == IF n >= m THEN m - 1 ELSE n

(* The bin of an attitude: the pitch is taken to be -90 to 90 degrees.     *)
Bin(g, yaw) ==
    <<Clip(trunc((fThe(g) + 2) * CURRENTMAXPITCH, 4), CURRENTMAXPITCH),
      Clip(trunc((fPhi(g) + 4) * CURRENTMAXROLL, 8), CURRENTMAXROLL),
      yaw>>

Filled(con) == {b \in Bins : con[b] # -1}

(* A bin outside the arrays is some other variable of the daemon.          *)
fUpdateConstellation(b) ==
    /\ ConIndex' = IF b \in Bins THEN [ConIndex EXCEPT ![b] = loopcounter] ELSE ConIndex
    /\ corrupted' = (corrupted \/ b \notin Bins)
    /\ loopcounter' = loopcounter + 1
    /\ ConstCount' = Cardinality(Filled(ConIndex'))
-----------------------------------------------------------------------------
(* heapSort() on an array with the indices 0..n-1.                         *)
Swapped(s, a, b) == [s EXCEPT ![a] = s[b], ![b] = s[a]]

maxChild_X1(s, root, bottom) ==                  \* the larger child is not looked for
    2 * root

maxChild(s, root, bottom) ==
    IF 2 * root = bottom \/ s[2 * root] > s[2 * root + 1]
    THEN 2 * root ELSE 2 * root + 1

(* siftDown(s, root, bottom): root follows the value it moves down; a root *)
(* of 0 is its own left child, and the right child is 1.                   *)
siftDown(s0, root0, bottom) ==
    LET sift[t \in 0..NumBins] ==                 \* after t rounds: the array, root, done
            IF t = 0 THEN [s |-> s0, root |-> root0, done |-> FALSE]
            ELSE LET r == sift[t - 1]
                     m == maxChild(r.s, r.root, bottom)
                 IN  IF r.done \/ 2 * r.root > bottom THEN r
                     ELSE IF r.s[r.root] < r.s[m]
                     THEN [s |-> Swapped(r.s, r.root, m), root |-> m, done |-> FALSE]
                     ELSE [r EXCEPT !.done = TRUE]
    IN  sift[NumBins].s

heapSort(s0, n) ==
    LET heap[i \in 0..(n \div 2 + 1)] ==          \* sifted from i on
            IF i = n \div 2 + 1 THEN s0 ELSE siftDown(heap[i + 1], i, n - 1)
        sorted[i \in 0..(n - 1)] ==               \* the places after i are final
            IF i = n - 1 THEN heap[0]
            ELSE siftDown(Swapped(sorted[i + 1], 0, i + 1), 0, i)
    IN  sorted[0]

(* The scratch array: the bins in the order of the loops.                  *)
BinAt(i) == <<i \div (CURRENTMAXROLL * CURRENTMAXYAW),
              (i \div CURRENTMAXYAW) % CURRENTMAXROLL,
              i % CURRENTMAXYAW>>

fUpdateCalibration7SVD(con) ==
    LET ScratchConIndex == heapSort([i \in 0..(NumBins - 1) |-> con[BinAt(i)]], NumBins)
        earliest == ScratchConIndex[NumBins - MAXEQUATIONS]
    IN  /\ earliestsample' = earliest
        /\ nequations' = Cardinality({b \in Filled(con) : con[b] >= earliest})
        /\ cal' = "fitted" /\ validcal' = 1
        /\ calAt' = loopcounter'
        /\ file' = "fitted" /\ everFitted' = TRUE

CalibrationDue ==
    /\ ConstCount' >= MINEQUATIONS
    /\ validcal = 0 \/ loopcounter' % CALINTERVAL = 0

(* A turn of the loop with the orientation flag set, in some attitude; one *)
(* without it only copies readings to the input devices.                   *)
iterate ==
    /\ process = "running"
    /\ loopcounter < MaxSamples
    /\ \E g \in Attitudes, yaw \in 0..(CURRENTMAXYAW - 1) : fUpdateConstellation(Bin(g, yaw))
    /\ \/ CalibrationDue /\ fUpdateCalibration7SVD(ConIndex')
       \/ ~CalibrationDue /\ UNCHANGED <<file, cal, validcal, earliestsample, nequations,
                                         calAt, everFitted>>
    /\ UNCHANGED process

(* killall; the file stays.                                                *)
killed ==
    /\ process = "running"
    /\ process' = "stopped"
    /\ UNCHANGED <<file, cal, ConIndex, ConstCount, loopcounter, validcal, earliestsample,
                   nequations, calAt, everFitted, corrupted>>

DaemonNext == main \/ iterate \/ killed

DaemonSpec == DaemonInit /\ [][DaemonNext]_daemonVars
-----------------------------------------------------------------------------
(* A calibration that has once been saved is never lost: every later start *)
(* finds it in the file and corrects with it from its first reading on,    *)
(* and no start that found an empty file leaves its garbage in the file.   *)
CalibrationKept ==
    everFitted => file = "fitted" /\ (process = "running" => cal = "fitted")

(* A fit uses the newest samples of the constellation, at most as many as  *)
(* the measurement matrix has rows and at least as many as a fit needs,    *)
(* and the first fit comes as soon as there are enough.                    *)
NewestEquations ==
    process = "running" =>
        /\ validcal = 1 <=> ConstCount >= MINEQUATIONS
        /\ calAt = loopcounter =>
              LET samples == {ConIndex[b] : b \in Filled(ConIndex)}
              IN  /\ nequations = Min({MAXEQUATIONS, ConstCount})
                  /\ nequations >= MINEQUATIONS
                  /\ Cardinality({s \in samples : s >= earliestsample}) = nequations

(* What fUpdateConstellation() says of its indices: the pitch is in -90 to *)
(* 90 degrees, and only an index exactly on the upper boundary needs care. *)
PitchInRange == ~corrupted
=============================================================================
