------------------------------ MODULE MCAlerts ------------------------------
(* A small instance of Alerts for TLC. *)
EXTENDS Alerts

\* Each job with the users and the events that touch its alerts, and clients.
Together == {{"checkComponentHealth", "alert", "checklist", "failure"},
             {"checkIdleBarrels", "alert", "delivery", "failure"},
             {"checkMaintenanceOverdue", "alert", "checklist", "failure"},
             {"checkLostBarrels", "alert", "delivery", "failure"},
             {"checkGeofenceViolations", "delivery", "geofence", "failure"},
             {"client", "delivery", "failure"}}
=============================================================================
