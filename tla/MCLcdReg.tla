------------------------------ MODULE MCLcdReg ------------------------------
(* The threads of the runs of LcdReg and what each of them does.              *)
EXTENDS LcdReg, TLC
CONSTANTS worker, console, shell, reader

\* A panel: the deferred-I/O worker, a rotation, and two users of debugfs.
PanelRoles == worker :> "update" @@ console :> "rotate" @@ shell :> "debugwrite"
              @@ reader :> "debugread"

\* An SSD1306 panel: the worker and a blanking of the console.
OledRoles == worker :> "update1306" @@ console :> "blank1306"
=============================================================================
