------------------------------ MODULE WebAccess -----------------------------
(***************************************************************************)
(* Who may do what: the roles each route of the backend asks for, as its   *)
(* controllers declare them, and RolesGuard, which compares them with the  *)
(* role the user has in the database when the request arrives.             *)
(*                                                                         *)
(* A controller is a record, its fields the routes, named like the methods *)
(* of the controller.  A route is <<controller, method>>.                  *)
(***************************************************************************)

Roles == {"ADMIN", "MANAGER", "LOGISTICS", "MAINTENANCE", "SUPER_ADMIN"}

Tenants == Roles \ {"SUPER_ADMIN"}
Admin == {"ADMIN"}
Office == {"ADMIN", "MANAGER"}
Workshop == {"ADMIN", "MAINTENANCE"}
Yard == {"ADMIN", "LOGISTICS"}
Repairs == Office \cup {"MAINTENANCE"}
Sales == Office \cup {"LOGISTICS"}
SuperAdmin == {"SUPER_ADMIN"}

-----------------------------------------------------------------------------
AlertController ==
  [findAll |-> Repairs, getCounts |-> Repairs, findById |-> Repairs,
   acknowledge |-> Office, resolve |-> Admin]

\* The routes of the barrels are declared in one class.  Those that read:
BarrelReads ==
  [findAll |-> Tenants, findUnlinked |-> Office, exportUnlinked |-> Office,
   downloadTemplate |-> Office, getImportProgress |-> Office, findByQrCode |-> Tenants,
   findById |-> Tenants, getTimeline |-> Tenants, getOwnershipHistory |-> Office,
   getBarrelComponents |-> Repairs]

\* and those that write.
BarrelController ==
  [create |-> Office, quickRegister |-> Office, validateImport |-> Office,
   executeImport |-> Office, scanOrCreate |-> Sales, generateBatch |-> Office \cup SuperAdmin,
   batchLinkQr |-> Office, transferBarrel |-> Office, batchUpdateStatus |-> Office,
   update |-> Office, linkQr |-> Office, delete |-> Admin]

ClientController ==
  [findAll |-> Sales, findById |-> Sales, create |-> Office, update |-> Admin,
   deactivate |-> Office, activate |-> Office, delete |-> Admin]

GeofenceController ==
  [findAll |-> Sales, findById |-> Sales, create |-> Office, update |-> Admin, delete |-> Admin]

ComponentController ==
  [findAll |-> Repairs, findById |-> Repairs, create |-> Admin, update |-> Admin,
   deactivate |-> Admin, delete |-> Admin]

MaintenanceController ==
  [getCalendar |-> Repairs, findAllOrders |-> Repairs, findOrderById |-> Repairs,
   createOrder |-> Workshop, registerChecklist |-> Workshop, registerTriage |-> Workshop]

DisposalController ==
  [findAll |-> Office, getSuggestions |-> Office, getAnalytics |-> Office, findById |-> Office,
   create |-> Office, update |-> Office, approve |-> Office, complete |-> Admin,
   revert |-> Admin, uploadPhoto |-> Office]

UserController ==
  [findAll |-> Admin, findById |-> Admin, create |-> Admin, update |-> Admin,
   unlockAccount |-> Admin, deactivate |-> Admin, activate |-> Admin, delete |-> Admin]

ReportController ==
  [m \in {"getAssetReport", "getMaintenanceReport", "getDisposalReport", "getComponentReport",
          "getLossAnalysis", "getAnomalyReport", "getBigNumbers"} |-> Office]

DashboardController ==
  [m \in {"getFleetHealth", "getCostPerLiter", "getAssetTurnover", "getLossReport"} |-> Office]

LogisticsController ==
  [m \in {"expedition", "delivery", "collection", "reception"} |-> Yard]

SupplierController ==
  [findAllSuppliers |-> Office, findSupplierById |-> Office, createSupplier |-> Admin,
   updateSupplier |-> Admin, deleteSupplier |-> Admin,
   findAllProviders |-> Office, findProviderById |-> Office, createProvider |-> Admin,
   updateProvider |-> Admin, deleteProvider |-> Admin]

TenantController == [getCurrent |-> Office, updateCurrent |-> Admin]

SuperAdminController ==
  [m \in {"createTenant", "listTenants", "getTenant", "updateTenantStatus",
          "createTenantAdmin", "listTenantUsers", "resetPassword", "unlockUser",
          "listBatches", "getBatchStats", "printBatch", "exportBatch",
          "getOwnershipHistory", "transferBatch", "getAuditLogs"} |-> SuperAdmin]

Controllers ==
  [alerts |-> AlertController, barrels |-> BarrelController, barrelReads |-> BarrelReads,
   clients |-> ClientController, geofences |-> GeofenceController,
   components |-> ComponentController, maintenance |-> MaintenanceController,
   disposals |-> DisposalController, users |-> UserController, reports |-> ReportController,
   dashboard |-> DashboardController, logistics |-> LogisticsController,
   suppliers |-> SupplierController, tenants |-> TenantController,
   superAdmin |-> SuperAdminController]

\* RolesGuard: one of the roles that the route, or else its class, declares.  A
\* route that declares none is closed; the public ones are not in the table.
CanActivate(role, route) == role \in Controllers[route[1]][route[2]]
=============================================================================
