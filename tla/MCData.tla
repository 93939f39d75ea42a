------------------------------- MODULE MCData -------------------------------
(* The components that keep the data whole, each with its own state: `part`     *)
(* names the one that runs, the others stay in their initial state.             *)
EXTENDS ProviderObjects, ExportImport, ConfigurationMerge, Assets, Database,
        Startup, Authorization, Updater, NotesPage

VARIABLE part

vars == <<part, objVars, catVars, fileVars, configVars, assetVars, dbVars, startVars, authVars,
          updaterVars, pageVars>>

Init ==
  /\ part \in {"objects", "catalog", "configuration", "assets", "database",
              "startup", "authorization", "updater", "page"}
  /\ ObjectsInit /\ (part # "objects" => drive = "google")
  /\ CatalogInit /\ ExportInit /\ (part # "catalog" => columns[1].kind = "multi")
  /\ ConfigurationInit /\ (LiveRows(local) = Ids \/ Cardinality(LiveRows(local)) = 1)
  /\ part # "configuration" => LiveRows(local) # Ids /\ ancestor = NoBase
  /\ AssetsInit /\ (part # "assets" => note = NoNote)
  /\ DatabaseInit /\ (part # "database" => db.file = "absent")
  /\ StartupInit /\ (part # "startup" => ~stranger)
  /\ AuthInit
  /\ UpdaterInit /\ (part # "updater" => service.kind = "idle" /\ ~prerelease)
  /\ PageInit /\ (part # "page" => ~server.enabled /\ ~view.offline)

DataVars == <<objVars, catVars, fileVars, configVars, assetVars, dbVars>>
DeviceVars == <<startVars, authVars, updaterVars, pageVars>>

(* A step of the component that runs; the others stay as they are.              *)
Next ==
  \/ /\ part = "objects"
     /\ UNCHANGED <<part, catVars, fileVars, configVars, assetVars, dbVars, DeviceVars>>
     /\ ObjectsNext
  \/ /\ part = "catalog"
     /\ UNCHANGED <<part, objVars, configVars, assetVars, dbVars, DeviceVars>>
     /\ ExportImportNext
  \/ /\ part = "configuration"
     /\ UNCHANGED <<part, objVars, catVars, fileVars, assetVars, dbVars, DeviceVars>>
     /\ ConfigurationNext
  \/ /\ part = "assets"
     /\ UNCHANGED <<part, objVars, catVars, fileVars, configVars, dbVars, DeviceVars>>
     /\ AssetsNext
  \/ /\ part = "database"
     /\ UNCHANGED <<part, objVars, catVars, fileVars, configVars, assetVars, DeviceVars>>
     /\ DatabaseNext
  \/ /\ part = "startup"
     /\ UNCHANGED <<part, DataVars, authVars, updaterVars, pageVars>>
     /\ StartupNext
  \/ /\ part = "authorization"
     /\ UNCHANGED <<part, DataVars, startVars, updaterVars, pageVars>>
     /\ AuthNext
  \/ /\ part = "updater"
     /\ UNCHANGED <<part, DataVars, startVars, authVars, pageVars>>
     /\ UpdaterNext
  \/ /\ part = "page"
     /\ UNCHANGED <<part, DataVars, startVars, authVars, updaterVars>>
     /\ PageNext

Spec == Init /\ [][Next]_vars

(* The state of the component that runs is what its declarations say.           *)
TypeOK ==
  /\ part = "objects" => ObjectsTypeOK
  /\ part = "catalog" => CatalogTypeOK /\ ExportTypeOK
  /\ part = "configuration" => ConfigurationTypeOK
  /\ part = "assets" => AssetsTypeOK
  /\ part = "database" => DatabaseTypeOK
  /\ part = "startup" => StartupTypeOK
  /\ part = "authorization" => AuthTypeOK
  /\ part = "updater" => UpdaterTypeOK
  /\ part = "page" => PageTypeOK

=============================================================================
