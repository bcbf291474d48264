--------------------------- MODULE AndroidBridge ---------------------------
(***************************************************************************)
(* The Android bridge of utils/retryix_bridge_android.c: it asks a GLES    *)
(* context for the GPU, opens and closes the OpenCL libraries that are     *)
(* installed, and lists a platform for each that opens.                    *)
(*                                                                         *)
(* One caller; every call into EGL, the loader or a file may fail.         *)
(***************************************************************************)
EXTENDS Integers, Sequences, SequencesExt

CONSTANTS
  Libraries,       \* paths, in the order in which they are tried
  MaxDrivers,      \* RETRYIX_ANDROID_MAX_GPU_DRIVERS
  MaxPlatforms,    \* room in the caller's array
  Renderers        \* what glGetString may say

ASSUME AndroidAssumption ==
  /\ Libraries \in Seq(ToSet(Libraries))
  /\ MaxDrivers \in Nat /\ MaxPlatforms \in Nat

VARIABLES
  egl,             \* what is open of EGL
  android,         \* where the bridge stands, and for whom it asks the GPU
  drivers,         \* libraries that opened, in order
  loaded,          \* libraries the caller holds
  answer           \* what was answered last

androidVars == <<egl, android, drivers, loaded, answer>>

Asleep == [at |-> "idle", purpose |-> "none", library |-> 1]
NoAnswer == [gpu_type |-> "unset", platforms |-> <<>>, svm |-> {}, ok |-> TRUE]

AndroidInit ==
  /\ egl = {}
  /\ android = Asleep
  /\ drivers = <<>>
  /\ loaded = {}
  /\ answer = NoAnswer

Purposes == {"type", "svm"}

(* Driver libraries are scanned first where a list of platforms is asked for. *)
retryix_discover_android_platforms ==
  /\ android.at = "idle"
  /\ android' = [Asleep EXCEPT !.at = "scan", !.purpose = "platforms"]
  /\ drivers' = <<>> /\ answer' = NoAnswer
  /\ UNCHANGED <<egl, loaded>>

retryix_android_check_svm_support(purpose) ==
  /\ android.at = "idle"
  /\ android' = [Asleep EXCEPT !.at = "display", !.purpose = purpose]
  /\ answer' = NoAnswer
  /\ UNCHANGED <<egl, drivers, loaded>>

(* Each library that is there is opened and closed; those that open count. *)
retryix_android_scan_opencl_drivers ==
  /\ android.at = "scan" /\ android.library <= Len(Libraries) /\ Len(drivers) < MaxDrivers
  /\ android' = [android EXCEPT !.library = @ + 1]
  /\ \E opens \in BOOLEAN :
       drivers' = IF opens THEN Append(drivers, Libraries[android.library]) ELSE drivers
  /\ UNCHANGED <<egl, loaded, answer>>

(* Without a driver there is no platform, and the GPU is not asked. *)
Scanned ==
  /\ android.at = "scan" /\ (android.library > Len(Libraries) \/ Len(drivers) = MaxDrivers)
  /\ IF drivers = <<>>
     THEN android' = Asleep /\ answer' = [answer EXCEPT !.ok = FALSE]
     ELSE android' = [android EXCEPT !.at = "display"] /\ UNCHANGED answer
  /\ UNCHANGED <<egl, drivers, loaded>>
-----------------------------------------------------------------------------
(* The GPU. *)

(* After the question: SVM fails with it, platforms are listed without it. *)
AfterGpu == IF android.purpose = "platforms" THEN "list" ELSE "idle"

EglInitialized ==
  /\ android.at = "display"
  /\ egl' = {"display"}
  /\ android' = [android EXCEPT !.at = "context"]
  /\ UNCHANGED <<drivers, loaded, answer>>

EglContext ==
  /\ android.at = "context"
  /\ egl' = egl \cup {"context"}
  /\ android' = [android EXCEPT !.at = "surface"]
  /\ UNCHANGED <<drivers, loaded, answer>>

(* The surface may be none; eglMakeCurrent tells. *)
EglSurface ==
  /\ android.at = "surface"
  /\ \E surface \in {{}, {"surface"}} : egl' = egl \cup surface
  /\ android' = [android EXCEPT !.at = "current"]
  /\ UNCHANGED <<drivers, loaded, answer>>

(* External: terminating the display ends what belongs to it, the surface included. *)
eglTerminate(open) == {}

(* No display; no configuration or context; or the context is not made current. *)
detect_fails ==
  /\ android.at \in {"display", "context", "current"}
  /\ egl' = IF android.at = "display" THEN egl ELSE eglTerminate(egl \ {"context"})
  /\ answer' = [answer EXCEPT !.ok = android.purpose = "platforms",
                  !.gpu_type = IF android.at = "display" THEN "unknown" ELSE @]
  /\ android' = [android EXCEPT !.at = AfterGpu]
  /\ UNCHANGED <<drivers, loaded>>

Families == {"Adreno", "Mali", "PowerVR", "Tegra", "Intel", "Vivante"}
detect_gpu_from_renderer(r) == IF r \in Families THEN r ELSE "unknown"

(* What each family supports. *)
SvmSupport(type) ==
  CASE type \in {"Adreno", "Tegra"} -> {"svm", "fine grain", "atomics"}
    [] type \in {"Mali", "PowerVR"} -> {"svm", "atomics"}
    [] OTHER -> {}

retryix_android_detect_gpu_type(renderer) ==
  /\ android.at = "current" /\ "surface" \in egl
  /\ LET type == detect_gpu_from_renderer(renderer)
     IN answer' = [answer EXCEPT !.gpu_type = type,
                     !.svm = IF android.purpose = "svm" THEN SvmSupport(type) ELSE @]
  /\ egl' = eglTerminate(egl \ {"surface", "context"})
  /\ android' = [android EXCEPT !.at = AfterGpu]
  /\ UNCHANGED <<drivers, loaded>>
-----------------------------------------------------------------------------
(* A platform of each driver, as far as there is room. *)
ListPlatforms ==
  /\ android.at = "list"
  /\ answer' = [answer EXCEPT !.ok = drivers # <<>>,
                  !.platforms = SubSeq(drivers, 1,
                     IF Len(drivers) < MaxPlatforms THEN Len(drivers) ELSE MaxPlatforms)]
  /\ android' = Asleep
  /\ UNCHANGED <<egl, drivers, loaded>>

(* A library without clGetPlatformIDs is closed again. *)
retryix_android_load_opencl_driver(library) ==
  /\ android.at = "idle"
  /\ \E opens, complete \in BOOLEAN :
       loaded' = IF opens /\ complete THEN loaded \cup {library} ELSE loaded
  /\ UNCHANGED <<egl, android, drivers, answer>>

(* The first governor file that opens is written, the others are left. *)
retryix_android_set_gpu_performance_mode(writable) ==
  IF writable = {} THEN {} ELSE {CHOOSE f \in writable : \A g \in writable : f <= g}

(* A path with a * in it opens no file, so the temperature stays 0. *)
retryix_android_get_gpu_thermal_info(cur_freq, max_freq) ==
  [temperature |-> 0, current_mhz |-> cur_freq \div 1000000, max_mhz |-> max_freq \div 1000000]

AndroidNext ==
  \/ retryix_discover_android_platforms
  \/ \E p \in Purposes : retryix_android_check_svm_support(p)
  \/ retryix_android_scan_opencl_drivers \/ Scanned
  \/ EglInitialized \/ EglContext \/ EglSurface \/ detect_fails
  \/ \E r \in Renderers : retryix_android_detect_gpu_type(r)
  \/ ListPlatforms
  \/ \E l \in ToSet(Libraries) : retryix_android_load_opencl_driver(l)

AndroidSpec == AndroidInit /\ [][AndroidNext]_androidVars

AndroidTypeOK ==
  /\ egl \subseteq {"display", "context", "surface"}
  /\ android.library \in 1 .. Len(Libraries) + 1
  /\ loaded \subseteq ToSet(Libraries)
  /\ answer.svm \subseteq {"svm", "fine grain", "atomics"}

(* However a question ends, EGL is closed after it; the platforms are drivers *)
(* that opened, in order, whether or not the GPU answered; and a GPU has fine *)
(* grains only with SVM.                                                      *)
AndroidUnwinds ==
  /\ android.at \in {"idle", "scan", "display", "list"} => egl = {}
  /\ IsPrefix(answer.platforms, drivers)
  /\ answer.platforms # <<>> => Len(answer.platforms) <= MaxPlatforms /\ answer.ok
  /\ "fine grain" \in answer.svm => {"svm", "atomics"} \subseteq answer.svm
=============================================================================
