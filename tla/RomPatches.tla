----------------------------- MODULE RomPatches -----------------------------
(***************************************************************************)
(* The firmware components of the image builders as data.  An image maps   *)
(* regions of the 512 KiB flash to what they hold; a component is what it  *)
(* demands of the image before it touches it and what it leaves behind.  A *)
(* region is a set of bytes that the components always guard and write     *)
(* together.  Regions in Free are erased in the stock image.               *)
(***************************************************************************)
Free == {"boostFlash", "boostTune", "ebcs", "overboost", "rotFlash",
         "sdFlash", "sdMapMin", "sdLowVe", "signature", "frontFlash",
         "wbFlash", "fsFlash", "leanTune"}

\* Code, pointers and data of the stock program.  cutNative, airNative, avcs,
\* frontNative, o2Native and purgeNative are guarded and never written.
Native == {"cutNative", "mapScale", "mapLowCel", "limiterPtr", "fanPtr",
           "timingPtr", "airNative", "airHelper", "loadFallback", "mafCode",
           "avcs", "frontNative", "frontEntry", "bank1Entry", "bank2Entry",
           "pumpPtr", "bank1Dtc", "sharedDtc", "o2Native", "o2Terms",
           "purgeNative", "purgeCode", "olPtr", "avcsInitPtr", "tables",
           "avls", "marker"}

Regions == Free \cup Native
Stock == [r \in Regions |-> IF r \in Free THEN "erased" ELSE "stock"]

Values == {"erased", "stock", "altered", "boost", "default", "off", "on", "donor",
           "overboost", "omni", "rotIdle", "sd", "zero", "bypass", "wideband", "noop",
           "neutral", "one", "mirror", "deleted", "pressure", "lean", "guards",
           "first", "second", "tuned", "idle", "fixed", "foreign"}

\* The checksum covers 2000..7FAF7: all regions but the marker above them.
Covered(image) == [r \in Regions \ {"marker"} |-> image[r]]

IsErased(rs) == [r \in rs |-> "erased"]
IsStock(rs) == [r \in rs |-> "stock"]
Both(f, g) == [r \in DOMAIN f \cup DOMAIN g |-> IF r \in DOMAIN f THEN f[r] ELSE g[r]]

-----------------------------------------------------------------------------
\* One pair of definitions per component, guards and effect.

BoostNeeds == Both(IsErased({"boostFlash", "boostTune", "ebcs", "overboost"}),
                   IsStock({"cutNative", "mapScale", "fanPtr", "limiterPtr"}))
BoostWrites == [boostFlash |-> "boost", boostTune |-> "default",
                ebcs |-> "off", overboost |-> "on",
                mapScale |-> "donor", limiterPtr |-> "overboost"]

OmniNeeds == [mapScale |-> "donor", mapLowCel |-> "stock"]
OmniWrites == [mapScale |-> "omni", mapLowCel |-> "omni"]

RotIdleNeeds == Both(IsErased({"rotFlash"}), IsStock({"timingPtr"}))
RotIdleWrites == [timingPtr |-> "rotIdle", rotFlash |-> "rotIdle"]

\* A mistake: the component's code is guarded, its tables are not.
SdNeedsCode == Both(IsErased({"sdFlash"}),
                    IsStock({"airNative", "airHelper", "loadFallback", "mafCode"}))
SdNeeds == Both(IsErased({"sdFlash", "sdMapMin", "sdLowVe"}),
                IsStock({"airNative", "airHelper", "loadFallback", "mafCode"}))
SdWrites == [airHelper |-> "sd", loadFallback |-> "zero", mafCode |-> "bypass",
             sdFlash |-> "sd", sdMapMin |-> "default", sdLowVe |-> "default"]

WidebandNeeds == Both(IsStock({"avcs", "fanPtr", "o2Native", "o2Terms", "frontEntry",
                               "bank1Entry", "bank2Entry", "pumpPtr", "bank1Dtc", "sharedDtc"}),
                      IsErased({"wbFlash", "signature"}))
WidebandWrites == [frontEntry |-> "wideband", bank1Entry |-> "wideband",
                   bank2Entry |-> "wideband", pumpPtr |-> "noop",
                   bank1Dtc |-> "off", sharedDtc |-> "off",
                   o2Terms |-> "neutral", wbFlash |-> "wideband", signature |-> "one"]

\* The superseded single front sensor.  Its switch is the byte the wideband
\* component uses as its signature, and both hold 01.
FrontNeeds == Both(IsStock({"avcs", "avcsInitPtr", "frontEntry", "bank2Entry",
                            "pumpPtr", "sharedDtc"}),
                   IsErased({"signature", "frontFlash"}))
FrontWrites == [frontEntry |-> "mirror", bank2Entry |-> "mirror", pumpPtr |-> "mirror",
                sharedDtc |-> "off", signature |-> "one", frontFlash |-> "mirror"]

PurgeNeeds == IsStock({"purgeCode", "purgeNative"})
PurgeWrites == [purgeCode |-> "deleted"]

\* The RAM words of the lean guard belonged to the front sensor's producer.
\* A mistake: the producer's own code is compared, the hooks into it are not.
ScratchUnhooked == [frontNative |-> "stock"]
ScratchReclaimed == [frontEntry |-> "wideband", pumpPtr |-> "noop", frontNative |-> "stock"]
FuelingNeeds == Both([signature |-> "one", limiterPtr |-> "overboost"],
                     Both(ScratchReclaimed, Both(IsStock({"avcs", "olPtr", "avcsInitPtr"}),
                                                 IsErased({"fsFlash", "leanTune"}))))
FuelingWrites == [olPtr |-> "pressure", avcsInitPtr |-> "lean", limiterPtr |-> "lean",
                  fsFlash |-> "guards", leanTune |-> "default"]

\* Calibration: the builders of the tables check the stock axes and values they
\* resample; the first build carries the idle cells of the component's own table
\* over, so it finds a fresh table only.
CalNeeds == Both([ebcs |-> "off", overboost |-> "on", signature |-> "one"],
                 IsStock({"tables", "airNative"}))
Cal1Needs == Both(CalNeeds, [sdLowVe |-> "default"])
Cal1Writes == [tables |-> "first", marker |-> "first", boostTune |-> "tuned",
               sdMapMin |-> "tuned", sdLowVe |-> "idle"]
Cal2Needs == CalNeeds
Cal2Writes == [tables |-> "second", marker |-> "second", boostTune |-> "tuned",
               sdMapMin |-> "tuned", leanTune |-> "second"]

\* Written without any guard, in every image it is applied to.
AvlsNeeds == << >>
AvlsWrites == [avls |-> "fixed"]

Components == {"boost", "omni", "rotIdle", "sd", "wideband", "front", "purge",
               "fueling", "cal1", "cal2", "avls"}
Needs == [boost |-> BoostNeeds, omni |-> OmniNeeds, rotIdle |-> RotIdleNeeds,
          sd |-> SdNeeds, wideband |-> WidebandNeeds, front |-> FrontNeeds,
          purge |-> PurgeNeeds, fueling |-> FuelingNeeds,
          cal1 |-> Cal1Needs, cal2 |-> Cal2Needs, avls |-> AvlsNeeds]
Writes == [boost |-> BoostWrites, omni |-> OmniWrites, rotIdle |-> RotIdleWrites,
           sd |-> SdWrites, wideband |-> WidebandWrites, front |-> FrontWrites,
           purge |-> PurgeWrites, fueling |-> FuelingWrites,
           cal1 |-> Cal1Writes, cal2 |-> Cal2Writes, avls |-> AvlsWrites]

Accepts(c, image) == \A r \in DOMAIN Needs[c] : image[r] = Needs[c][r]
Patched(c, image) == Both(Writes[c], image)
=============================================================================
